---- MODULE Spec2Model ----
(***************************************************************************)
(* Model of the gaming tracker (index.js): the in-memory Map `rooms`, the   *)
(* handlers POST /announce, GET /announce and GET /scrape that run once    *)
(* the rateLimit middleware has called next(), the periodic                *)
(* roomCleanupInterval callback, and the rateLimit middleware itself with  *)
(* its tables `rateLimitMap` and `blockedIPs` and their periodic sweeps.   *)
(*                                                                         *)
(* Spec and SpecLive run the registry with DISABLE_RATE_LIMIT set, as the  *)
(* test suite does; SpecListing fills the registry for the listing options *)
(* of GET /announce; SpecLimiter runs the routes behind the middleware    *)
(* and SpecCrowd more clients than the limiter table holds; SpecReplay     *)
(* sends announces with a nonce, SpecGuarded sends them through the        *)
(* middleware, SpecWrite exercises the create and update branches,         *)
(* SpecStamped sends announces with a timestamp, and SpecOpen runs the     *)
(* middleware with DISABLE_RATE_LIMIT set over tables that are not empty.  *)
(*                                                                         *)
(* `resp` and `hist` observe the handler that ran last at the current      *)
(* clock value; a clock tick clears them.  `hist.existed` tells whether    *)
(* the announced roomId was stored when the handler began, `hist.removed`  *)
(* the ids of the records the handler deleted.                             *)
(*                                                                         *)
(* A JS Map iterates in insertion order, an update keeps a key's position  *)
(* and a delete followed by a set moves the key to the end; `rooms` is     *)
(* therefore a sequence of room records in insertion order.  A request     *)
(* body is a function from the keys it carries to their values, so         *)
(* `data.k !== undefined` is `k \in DOMAIN data`.  Time is Date.now() in   *)
(* milliseconds; the clock of the model advances in whole seconds.  A      *)
(* handler is synchronous, so Node runs it to completion: one action each. *)
(*                                                                         *)
(* A room record keeps one field of each kind the handlers treat alike:    *)
(* player1WalletPuzzleHash stands for the optional player-1 fields         *)
(* (overwritten when the payload's value is truthy) and player2Name for    *)
(* the player-2 and state-channel fields (overwritten when the payload     *)
(* carries the key).  Only the payloads of SpecStamped carry a timestamp, *)
(* and the queries carry no search text, so that branch of GET /announce  *)
(* is not entered.                                                         *)
(*                                                                         *)
(* `usedNonces` is the Set of that name in insertion order, and            *)
(* `nonceTimers` the callbacks that validateAnnouncement has handed to     *)
(* setTimeout and that have not run yet, in the order they were scheduled; *)
(* they all have the same delay, so Node runs them in that order, each no  *)
(* earlier than its due time.  SpecReplay sends payloads with a nonce.     *)
(***************************************************************************)
EXTENDS Integers, Sequences, FiniteSets, TLC

VARIABLES
  rooms,   \* the Map `rooms`, in insertion order
  now,     \* Date.now()
  resp,    \* what the handler that ran at this instant answered
  hist,    \* history: what that handler did to the registry
  rateLimitMap,  \* the Map `rateLimitMap`, in insertion order
  blockedIPs,    \* the Map `blockedIPs`, in insertion order
  client,        \* history: whose request rateLimit examined at this instant
  usedNonces,    \* the Set `usedNonces`, in insertion order
  nonceTimers,   \* the pending setTimeout callbacks of validateAnnouncement
  nonceLog       \* history: when each nonce was last added to usedNonces

vars == <<rooms, now, resp, hist, rateLimitMap, blockedIPs, client,
          usedNonces, nonceTimers, nonceLog>>
nonceVars == <<usedNonces, nonceTimers, nonceLog>>

(***************************************************************************)
(* Bounds of the model.                                                    *)
(***************************************************************************)
\* Room time-to-live in seconds in the model (the source's default is 600).
TimeoutSecs == 1
\* Requests arrive while the clock is at most this many seconds.
LastRequestSec == 3

(***************************************************************************)
(* Configuration (index.js, CONFIGURATION).                                *)
(***************************************************************************)
\* The hard limit on stored rooms: 100 in the source, scaled down so that the
\* registry fills up within the model's bounds.
MAX_ROOMS == 2
PEER_TIMEOUT == TimeoutSecs
\* PEER_TIMEOUT * 1000: the timeout is in seconds, the clock in milliseconds.
MsPerSec == 1000

\* The clock stops one second after a room announced at the last request
\* time has expired.
MaxTime == (LastRequestSec + PEER_TIMEOUT + 1) * MsPerSec

\* One more room id than the registry can hold, so that a new id can arrive
\* at a full registry.
RoomIds == {"r1", "r2", "r3", "r4", "r5", "r6"}
IdOrder == <<"r1", "r2", "r3", "r4", "r5", "r6">>
UsedRoomIds == {IdOrder[i] : i \in 1..(MAX_ROOMS + 1)}

\* JSON null.
Null == "<null>"

(***************************************************************************)
(* JavaScript helpers.                                                     *)
(***************************************************************************)
Has(d, k) == k \in DOMAIN d

\* Truthiness of data.k for a string-or-null field and for a number field.
TruthyStr(d, k) == Has(d, k) /\ d[k] # Null /\ d[k] # ""
TruthyNum(d, k) == Has(d, k) /\ d[k] # 0

\* Array.prototype.sort with comparator (a, b) => key(a) - key(b), where
\* keys[i] is the key of s[i]: stable, so equal keys keep their order in the
\* array.
StableSortByKey(s, keys) ==
  LET n == Len(s)
      Before(j, i) == \/ keys[j] < keys[i]
                      \/ (keys[j] = keys[i] /\ j < i)
      Rank(i) == Cardinality({j \in 1..n : Before(j, i)}) + 1
  IN  [p \in 1..n |-> s[CHOOSE i \in 1..n : Rank(i) = p]]

\* The createdAt and wagerAmount of each element of a list of rooms.
CreatedAts(rs) == [i \in 1..Len(rs) |-> rs[i].createdAt]
Wagers(rs) == [i \in 1..Len(rs) |-> rs[i].wagerAmount]
Negated(keys) == [i \in DOMAIN keys |-> 0 - keys[i]]

\* Map.prototype.has / get / delete / set on the insertion-ordered map.
RoomIdsOf(rs) == {rs[i].roomId : i \in 1..Len(rs)}
HasRoom(rs, id) == \E i \in 1..Len(rs) : rs[i].roomId = id
GetRoom(rs, id) == rs[CHOOSE i \in 1..Len(rs) : rs[i].roomId = id]
DeleteRoom(rs, id) == SelectSeq(rs, LAMBDA r : r.roomId # id)
SetRoom(rs, room) ==
  IF HasRoom(rs, room.roomId)
  THEN [i \in 1..Len(rs) |-> IF rs[i].roomId = room.roomId THEN room ELSE rs[i]]
  ELSE Append(rs, room)

(***************************************************************************)
(* validateAnnouncement.  Strings are atomic values here, so the format    *)
(* tests (regex, prefix, URL parse, length) are membership in the sets of  *)
(* values that pass them.                                                  *)
(***************************************************************************)
ValidGameTypes == {"rockpaperscissors", "calpoker", "battleship", "tictactoe"}
ValidStatuses == {"waiting", "active", "finished", "cancelled"}
WellFormedRoomIds == RoomIds
WellFormedNames == {"alice", "bob"}
WellFormedWallets == {"xch1a", "txch1b"}
WellFormedPeerIds == {"peer1"}
WellFormedUrls == {"https://crate.ink"}
WellFormedHashes == {"ph"}
\* The sanity cap on wagerAmount (10^12 mojos in the source), scaled to fit
\* the model's small wagers.
MaxWager == 1000

validateAnnouncement(data) ==
  LET roomIdErr ==
        IF ~TruthyStr(data, "roomId") \/ data.roomId \notin WellFormedRoomIds
        THEN <<"roomId">> ELSE <<>>
      gameTypeErr ==
        IF Has(data, "gameType") /\ data.gameType # Null
           /\ data.gameType \notin ValidGameTypes
        THEN <<"gameType">> ELSE <<>>
      nameErr ==
        IF ~TruthyStr(data, "player1Name") \/ data.player1Name \notin WellFormedNames
        THEN <<"player1Name">> ELSE <<>>
      walletErr ==
        IF ~TruthyStr(data, "player1WalletAddress")
           \/ data.player1WalletAddress \notin WellFormedWallets
        THEN <<"player1WalletAddress">> ELSE <<>>
      hashErr ==
        IF Has(data, "player1WalletPuzzleHash") /\ data.player1WalletPuzzleHash # Null
           /\ data.player1WalletPuzzleHash \notin WellFormedHashes
        THEN <<"player1WalletPuzzleHash">> ELSE <<>>
      peerErr ==
        IF ~TruthyStr(data, "player1PeerId") \/ data.player1PeerId \notin WellFormedPeerIds
        THEN <<"player1PeerId">> ELSE <<>>
      urlErr ==
        IF ~TruthyStr(data, "appBaseUrl") \/ data.appBaseUrl \notin WellFormedUrls
        THEN <<"appBaseUrl">> ELSE <<>>
      p2Err ==
        IF Has(data, "player2Name") /\ data.player2Name # Null
           /\ data.player2Name \notin WellFormedNames
        THEN <<"player2Name">> ELSE <<>>
      wagerErr ==
        IF Has(data, "wagerAmount")
           /\ (data.wagerAmount < 0 \/ data.wagerAmount > MaxWager)
        THEN <<"wagerAmount">> ELSE <<>>
      statusErr ==
        IF TruthyStr(data, "status") /\ data.status \notin ValidStatuses
        THEN <<"status">> ELSE <<>>
      publicErr ==
        IF Has(data, "public") /\ data.public \notin BOOLEAN
        THEN <<"public">> ELSE <<>>
  IN  roomIdErr \o gameTypeErr \o nameErr \o walletErr \o hashErr \o peerErr
        \o urlErr \o p2Err \o wagerErr \o statusErr \o publicErr

\* The tolerance of the timestamp check, 30000 in the source.
TimestampTolerance == 2000

Abs(n) == IF n < 0 THEN 0 - n ELSE n

\* Mutant of validateTimestamp: a difference of exactly the tolerance is
\* rejected too.
validateTimestamp_Exclusive(data, t) ==
  IF TruthyNum(data, "timestamp") /\ Abs(t - data.timestamp) >= TimestampTolerance
  THEN <<"timestamp">>
  ELSE <<>>

\* "Validate timestamp" of validateAnnouncement: skipped for a payload
\* whose timestamp is missing or falsy.
validateTimestamp(data, t) ==
  IF TruthyNum(data, "timestamp") /\ Abs(t - data.timestamp) > TimestampTolerance
  THEN <<"timestamp">>
  ELSE <<>>

\* 5 * 60 * 1000 and 5000 in the source.
NONCE_CLEANUP_INTERVAL == 2000
MAX_NONCES == 2
\* The most setTimeout callbacks pending at a time.
MaxTimers == 3

HasNonce(used, nonce) == \E i \in 1..Len(used) : used[i] = nonce
DeleteNonce(used, nonce) == SelectSeq(used, LAMBDA n : n # nonce)

\* Mutant of validateNonce: a full Set drops the nonce added last.
validateNonce_EvictsNewest(data, used) ==
  IF ~TruthyStr(data, "nonce")
  THEN [errors |-> <<>>, usedNonces |-> used]
  ELSE IF HasNonce(used, data.nonce)
       THEN [errors |-> <<"nonce">>, usedNonces |-> used]
       ELSE IF Len(used) >= MAX_NONCES
            THEN [errors |-> <<>>,
                  usedNonces |-> Append(SubSeq(used, 1, Len(used) - 1), data.nonce)]
            ELSE [errors |-> <<>>, usedNonces |-> Append(used, data.nonce)]

\* Mutant of validateNonce: a nonce of the Set is accepted again.
validateNonce_AcceptsReplay(data, used) ==
  IF ~TruthyStr(data, "nonce")
  THEN [errors |-> <<>>, usedNonces |-> used]
  ELSE IF HasNonce(used, data.nonce)
       THEN [errors |-> <<>>, usedNonces |-> used]
       ELSE IF Len(used) >= MAX_NONCES
            THEN [errors |-> <<>>,
                  usedNonces |-> Append(DeleteNonce(used, Head(used)), data.nonce)]
            ELSE [errors |-> <<>>, usedNonces |-> Append(used, data.nonce)]

\* The last block of validateAnnouncement, "Validate nonce": the error it
\* pushes and the Set it leaves.  It runs whatever the errors before it.
validateNonce(data, used) ==
  IF ~TruthyStr(data, "nonce")
  THEN [errors |-> <<>>, usedNonces |-> used]
  ELSE IF HasNonce(used, data.nonce)
       THEN [errors |-> <<"nonce">>, usedNonces |-> used]
       ELSE IF Len(used) >= MAX_NONCES
            THEN [errors |-> <<>>,
                  usedNonces |-> Append(DeleteNonce(used, Head(used)), data.nonce)]
            ELSE [errors |-> <<>>, usedNonces |-> Append(used, data.nonce)]

\* The setTimeout at the end of that block: one more pending callback for
\* every payload with a nonce.
ScheduleNonceCleanup(data, timers, t) ==
  IF TruthyStr(data, "nonce")
  THEN Append(timers, [nonce |-> data.nonce, due |-> t + NONCE_CLEANUP_INTERVAL])
  ELSE timers

\* The callback () => usedNonces.delete(data.nonce) that is due first.
NonceTimeout ==
  /\ Len(nonceTimers) > 0
  /\ Head(nonceTimers).due <= now
  /\ usedNonces' = DeleteNonce(usedNonces, Head(nonceTimers).nonce)
  /\ nonceTimers' = Tail(nonceTimers)
  /\ resp' = [op |-> "nonceTimeout", nonce |-> Head(nonceTimers).nonce]
  /\ hist' = [existed |-> FALSE, removed |-> {}]
  /\ UNCHANGED <<rooms, now, rateLimitMap, blockedIPs, client, nonceLog>>

(***************************************************************************)
(* POST /announce.                                                         *)
(***************************************************************************)
\* "Enforce room limit": at capacity the room first in createdAt order goes,
\* before the handler looks the announced roomId up.
\* Mutants of EnforceRoomLimit: the limit tested with > instead of >=, and
\* the first room in insertion order evicted instead of the oldest.
EnforceRoomLimit_OffByOne(rs) ==
  IF Len(rs) > MAX_ROOMS
  THEN LET sortedRooms == StableSortByKey(rs, CreatedAts(rs))
       IN  IF Len(sortedRooms) > 0 THEN DeleteRoom(rs, sortedRooms[1].roomId) ELSE rs
  ELSE rs

EnforceRoomLimit_FirstInserted(rs) ==
  IF Len(rs) >= MAX_ROOMS
  THEN IF Len(rs) > 0 THEN DeleteRoom(rs, rs[1].roomId) ELSE rs
  ELSE rs

EnforceRoomLimit(rs) ==
  IF Len(rs) >= MAX_ROOMS
  THEN LET sortedRooms == StableSortByKey(rs, CreatedAts(rs))
       IN  IF Len(sortedRooms) > 0 THEN DeleteRoom(rs, sortedRooms[1].roomId) ELSE rs
  ELSE rs

\* Mutant of UpdateRoom: updatedAt is not refreshed.
UpdateRoom_StaleUpdatedAt(room, data, t) ==
  [room EXCEPT
     !.gameType = IF Has(data, "gameType") THEN data.gameType ELSE @,
     !.status = IF TruthyStr(data, "status") THEN data.status ELSE @,
     !.appBaseUrl = IF TruthyStr(data, "appBaseUrl") THEN data.appBaseUrl ELSE @,
     !.public = IF Has(data, "public") THEN data.public ELSE @,
     !.player1Name = IF TruthyStr(data, "player1Name") THEN data.player1Name ELSE @,
     !.player1WalletAddress =
        IF TruthyStr(data, "player1WalletAddress") THEN data.player1WalletAddress ELSE @,
     !.player1WalletPuzzleHash =
        IF TruthyStr(data, "player1WalletPuzzleHash") THEN data.player1WalletPuzzleHash ELSE @,
     !.player1PeerId = IF TruthyStr(data, "player1PeerId") THEN data.player1PeerId ELSE @,
     !.player2Name = IF Has(data, "player2Name") THEN data.player2Name ELSE @,
     !.wagerAmount = IF Has(data, "wagerAmount") THEN data.wagerAmount ELSE @]

\* The update branch: the stored record merged with the payload.
UpdateRoom(room, data, t) ==
  [room EXCEPT
     !.gameType = IF Has(data, "gameType") THEN data.gameType ELSE @,
     !.status = IF TruthyStr(data, "status") THEN data.status ELSE @,
     !.appBaseUrl = IF TruthyStr(data, "appBaseUrl") THEN data.appBaseUrl ELSE @,
     !.public = IF Has(data, "public") THEN data.public ELSE @,
     !.player1Name = IF TruthyStr(data, "player1Name") THEN data.player1Name ELSE @,
     !.player1WalletAddress =
        IF TruthyStr(data, "player1WalletAddress") THEN data.player1WalletAddress ELSE @,
     !.player1WalletPuzzleHash =
        IF TruthyStr(data, "player1WalletPuzzleHash") THEN data.player1WalletPuzzleHash ELSE @,
     !.player1PeerId = IF TruthyStr(data, "player1PeerId") THEN data.player1PeerId ELSE @,
     !.player2Name = IF Has(data, "player2Name") THEN data.player2Name ELSE @,
     !.wagerAmount = IF Has(data, "wagerAmount") THEN data.wagerAmount ELSE @,
     !.updatedAt = t]

\* Mutant of CreateRoom: createdAt is the server time whatever the payload.
CreateRoom_ServerCreatedAt(data, t) ==
  [roomId |-> data.roomId,
   gameType |-> IF TruthyStr(data, "gameType") THEN data.gameType ELSE Null,
   status |-> IF TruthyStr(data, "status") THEN data.status ELSE "waiting",
   appBaseUrl |-> data.appBaseUrl,
   public |-> IF Has(data, "public") THEN data.public ELSE TRUE,
   player1Name |-> data.player1Name,
   player1WalletAddress |-> data.player1WalletAddress,
   player1WalletPuzzleHash |->
     IF TruthyStr(data, "player1WalletPuzzleHash") THEN data.player1WalletPuzzleHash ELSE Null,
   player1PeerId |-> data.player1PeerId,
   player2Name |-> IF TruthyStr(data, "player2Name") THEN data.player2Name ELSE Null,
   wagerAmount |-> IF TruthyNum(data, "wagerAmount") THEN data.wagerAmount ELSE 0,
   createdAt |-> t,
   updatedAt |-> t]

\* The create branch: a new record from the payload.
CreateRoom(data, t) ==
  [roomId |-> data.roomId,
   gameType |-> IF TruthyStr(data, "gameType") THEN data.gameType ELSE Null,
   status |-> IF TruthyStr(data, "status") THEN data.status ELSE "waiting",
   appBaseUrl |-> data.appBaseUrl,
   public |-> IF Has(data, "public") THEN data.public ELSE TRUE,
   player1Name |-> data.player1Name,
   player1WalletAddress |-> data.player1WalletAddress,
   player1WalletPuzzleHash |->
     IF TruthyStr(data, "player1WalletPuzzleHash") THEN data.player1WalletPuzzleHash ELSE Null,
   player1PeerId |-> data.player1PeerId,
   player2Name |-> IF TruthyStr(data, "player2Name") THEN data.player2Name ELSE Null,
   wagerAmount |-> IF TruthyNum(data, "wagerAmount") THEN data.wagerAmount ELSE 0,
   createdAt |-> IF TruthyNum(data, "createdAt") THEN data.createdAt ELSE t,
   updatedAt |-> t]

\* The handler's "get or create room record": the stored record merged with
\* the payload, or a new record.
UpsertRoom(limited, data, t) ==
  IF HasRoom(limited, data.roomId)
  THEN UpdateRoom(GetRoom(limited, data.roomId), data, t)
  ELSE CreateRoom(data, t)

\* What a POST /announce leaves in hist about its nonce: the nonce, when
\* it was last added to the Set before this request (0: never), and the
\* nonces this request has dropped from the Set.
NonceHistory(data, used) ==
  IF TruthyStr(data, "nonce")
  THEN [nonce |-> data.nonce,
        addedBefore |-> IF Has(nonceLog, data.nonce) THEN nonceLog[data.nonce] ELSE 0,
        dropped |-> {usedNonces[i] : i \in 1..Len(usedNonces)}
                      \ {used[i] : i \in 1..Len(used)}]
  ELSE [nonce |-> Null, addedBefore |-> 0, dropped |-> {}]

\* Mutant of PostAnnounce: the room limit is enforced before the validation.
PostAnnounce_LimitBeforeValidation(data) ==
  /\ now <= LastRequestSec * MsPerSec
  /\ TruthyStr(data, "nonce") => Len(nonceTimers) < MaxTimers
  /\ LET replay == validateNonce(data, usedNonces)
         errors == validateAnnouncement(data) \o validateTimestamp(data, now)
                     \o replay.errors
         limited == EnforceRoomLimit(rooms)
         room == UpsertRoom(limited, data, now)
     IN  /\ usedNonces' = replay.usedNonces
         /\ nonceTimers' = ScheduleNonceCleanup(data, nonceTimers, now)
         /\ nonceLog' = IF /\ TruthyStr(data, "nonce")
                           /\ ~HasNonce(usedNonces, data.nonce)
                        THEN (data.nonce :> now) @@ nonceLog
                        ELSE nonceLog
         /\ IF Len(errors) > 0
            THEN /\ resp' = [op |-> "POST /announce", code |-> 400, errors |-> errors]
                 /\ hist' = [existed |-> FALSE, removed |-> {}]
                              @@ NonceHistory(data, replay.usedNonces)
                 /\ rooms' = limited
            ELSE /\ rooms' = SetRoom(limited, room)
                 /\ resp' = [op |-> "POST /announce", code |-> 200, room |-> room]
                 /\ hist' = [existed |-> HasRoom(rooms, data.roomId),
                             removed |-> RoomIdsOf(rooms) \ RoomIdsOf(limited)]
                              @@ NonceHistory(data, replay.usedNonces)
  /\ UNCHANGED now

PostAnnounce(data) ==
  /\ now <= LastRequestSec * MsPerSec
  /\ TruthyStr(data, "nonce") => Len(nonceTimers) < MaxTimers
  /\ LET replay == validateNonce(data, usedNonces)
         errors == validateAnnouncement(data) \o validateTimestamp(data, now)
                     \o replay.errors
         limited == EnforceRoomLimit(rooms)
         room == UpsertRoom(limited, data, now)
     IN  /\ usedNonces' = replay.usedNonces
         /\ nonceTimers' = ScheduleNonceCleanup(data, nonceTimers, now)
         /\ nonceLog' = IF /\ TruthyStr(data, "nonce")
                           /\ ~HasNonce(usedNonces, data.nonce)
                        THEN (data.nonce :> now) @@ nonceLog
                        ELSE nonceLog
         /\ IF Len(errors) > 0
            THEN /\ resp' = [op |-> "POST /announce", code |-> 400, errors |-> errors]
                 /\ hist' = [existed |-> FALSE, removed |-> {}]
                              @@ NonceHistory(data, replay.usedNonces)
                 /\ UNCHANGED rooms
            ELSE /\ rooms' = SetRoom(limited, room)
                 /\ resp' = [op |-> "POST /announce", code |-> 200, room |-> room]
                 /\ hist' = [existed |-> HasRoom(rooms, data.roomId),
                             removed |-> RoomIdsOf(rooms) \ RoomIdsOf(limited)]
                              @@ NonceHistory(data, replay.usedNonces)
  /\ UNCHANGED now

(***************************************************************************)
(* GET /announce.  A query is a function from the parameters it carries to *)
(* their values; numeric parameters are the numbers parseInt yields.       *)
(***************************************************************************)
DefaultLimit == 50
MaxLimit == 200

validateQueryParams(q) ==
  LET offsetErr == IF Has(q, "offset") /\ q.offset < 0 THEN <<"offset">> ELSE <<>>
      limitErr ==
        IF Has(q, "limit") /\ (q.limit < 1 \/ q.limit > MaxLimit)
        THEN <<"limit">> ELSE <<>>
      minErr == IF Has(q, "minWager") /\ q.minWager < 0 THEN <<"minWager">> ELSE <<>>
      maxErr == IF Has(q, "maxWager") /\ q.maxWager < 0 THEN <<"maxWager">> ELSE <<>>
      privErr ==
        IF Has(q, "includePrivate") /\ q.includePrivate \notin {"true", "false", "1", "0"}
        THEN <<"includePrivate">> ELSE <<>>
  IN  offsetErr \o limitErr \o minErr \o maxErr \o privErr

\* room.updatedAt || room.createdAt
LastActivity(room) == IF room.updatedAt # 0 THEN room.updatedAt ELSE room.createdAt

\* Mutant of CleanExpiredForList: the age is taken from createdAt alone.
CleanExpiredForList_ByCreatedAt(rs, t) ==
  SelectSeq(rs, LAMBDA room :
    ~(room.createdAt # 0 /\ t - room.createdAt > PEER_TIMEOUT * MsPerSec))

\* "Clean expired rooms" at the head of GET /announce.
CleanExpiredForList(rs, t) ==
  SelectSeq(rs, LAMBDA room :
    ~(LastActivity(room) # 0 /\ t - LastActivity(room) > PEER_TIMEOUT * MsPerSec))

\* Mutant of FilterPublic: the public flag is not looked at.
FilterPublic_Unfiltered(list, includePrivate) == list

\* The filters, in the handler's order.
FilterPublic(list, includePrivate) ==
  IF ~includePrivate THEN SelectSeq(list, LAMBDA r : r.public # FALSE) ELSE list

FilterGameType(list, gameType) ==
  IF gameType # "all" THEN SelectSeq(list, LAMBDA r : r.gameType = gameType) ELSE list

FilterStatus(list, status) ==
  IF status # "all" THEN SelectSeq(list, LAMBDA r : r.status = status) ELSE list

\* maxWager = parseInt(req.query.maxWager) || Infinity: no upper limit when
\* the parameter is absent or parses to 0.
FilterWager(list, q) ==
  LET minWager == IF TruthyNum(q, "minWager") THEN q.minWager ELSE 0
  IN  SelectSeq(list, LAMBDA r :
        /\ r.wagerAmount >= minWager
        /\ (TruthyNum(q, "maxWager") => r.wagerAmount <= q.maxWager))

\* Mutant of SortRooms: the default order is oldest first.
SortRooms_DefaultOldest(list, sort) ==
  CASE sort = "oldest" -> StableSortByKey(list, CreatedAts(list))
    [] sort = "wager_high" -> StableSortByKey(list, Negated(Wagers(list)))
    [] sort = "wager_low" -> StableSortByKey(list, Wagers(list))
    [] OTHER -> StableSortByKey(list, CreatedAts(list))

SortRooms(list, sort) ==
  CASE sort = "oldest" -> StableSortByKey(list, CreatedAts(list))
    [] sort = "wager_high" -> StableSortByKey(list, Negated(Wagers(list)))
    [] sort = "wager_low" -> StableSortByKey(list, Wagers(list))
    [] OTHER -> StableSortByKey(list, Negated(CreatedAts(list)))

\* Mutant of Paginate: the limit is taken for the end index of the slice.
Paginate_LimitAsEnd(list, offset, limit) ==
  LET last == IF limit < Len(list) THEN limit ELSE Len(list)
  IN  SubSeq(list, offset + 1, last)

\* Array.prototype.slice(offset, offset + limit)
Paginate(list, offset, limit) ==
  LET last == IF offset + limit < Len(list) THEN offset + limit ELSE Len(list)
  IN  SubSeq(list, offset + 1, last)

\* The response body of GET /announce for the swept registry rs.
ListResponse(rs, q) ==
  LET gameType == IF TruthyStr(q, "gameType") THEN q.gameType ELSE "all"
      status == IF TruthyStr(q, "status") THEN q.status ELSE "all"
      sort == IF TruthyStr(q, "sort") THEN q.sort ELSE "newest"
      offset == IF TruthyNum(q, "offset") /\ q.offset > 0 THEN q.offset ELSE 0
      given == IF TruthyNum(q, "limit") THEN q.limit ELSE DefaultLimit
      limit == IF given < 1 THEN 1 ELSE IF given > MaxLimit THEN MaxLimit ELSE given
      includePrivate == Has(q, "includePrivate") /\ q.includePrivate \in {"true", "1"}
      roomList == SortRooms(
                    FilterWager(
                      FilterStatus(
                        FilterGameType(FilterPublic(rs, includePrivate), gameType),
                        status),
                      q),
                    sort)
      paginatedRooms == Paginate(roomList, offset, limit)
  IN  [op |-> "GET /announce", code |-> 200, complete |-> Len(paginatedRooms),
       total |-> Len(roomList), offset |-> offset, limit |-> limit,
       rooms |-> paginatedRooms]

GetAnnounce(q) ==
  /\ now <= LastRequestSec * MsPerSec
  /\ LET queryErrors == validateQueryParams(q)
     IN  IF Len(queryErrors) > 0
         THEN /\ resp' = [op |-> "GET /announce", code |-> 400, errors |-> queryErrors]
              /\ hist' = [existed |-> FALSE, removed |-> {}]
              /\ UNCHANGED rooms
         ELSE LET swept == CleanExpiredForList(rooms, now)
              IN  /\ rooms' = swept
                  /\ resp' = ListResponse(swept, q)
                  /\ hist' = [existed |-> FALSE,
                              removed |-> RoomIdsOf(rooms) \ RoomIdsOf(swept)]
  /\ UNCHANGED <<now, usedNonces, nonceTimers, nonceLog>>

(***************************************************************************)
(* GET /scrape.                                                            *)
(***************************************************************************)
\* Mutant of CleanExpiredForScrape: a room exactly PEER_TIMEOUT seconds old
\* is removed too.
CleanExpiredForScrape_AtTimeout(rs, t) ==
  SelectSeq(rs, LAMBDA room :
    ~(LastActivity(room) # 0 /\ t - LastActivity(room) >= PEER_TIMEOUT * MsPerSec))

\* "Clean expired rooms first" at the head of GET /scrape.
CleanExpiredForScrape(rs, t) ==
  SelectSeq(rs, LAMBDA room :
    ~(LastActivity(room) # 0 /\ t - LastActivity(room) > PEER_TIMEOUT * MsPerSec))

\* roomsByGameType and roomsByStatus: a count for every key that occurs.
CountBy(keys) ==
  [k \in {keys[i] : i \in DOMAIN keys} |-> Cardinality({i \in DOMAIN keys : keys[i] = k})]

\* Mutant of ScrapeResponse: a room without gameType is in no bucket.
ScrapeResponse_SkipsUntyped(activeRooms) ==
  LET typed == SelectSeq(activeRooms, LAMBDA room : room.gameType \notin {Null, ""})
  IN  [op |-> "GET /scrape", code |-> 200, total |-> Len(activeRooms),
       byGameType |-> CountBy([i \in 1..Len(typed) |-> typed[i].gameType]),
       byStatus |-> CountBy([i \in 1..Len(activeRooms) |->
                        IF activeRooms[i].status \in {Null, ""}
                        THEN "unknown" ELSE activeRooms[i].status])]

ScrapeResponse(activeRooms) ==
  [op |-> "GET /scrape", code |-> 200, total |-> Len(activeRooms),
   byGameType |-> CountBy([i \in 1..Len(activeRooms) |->
                    IF activeRooms[i].gameType \in {Null, ""}
                    THEN "unknown" ELSE activeRooms[i].gameType]),
   byStatus |-> CountBy([i \in 1..Len(activeRooms) |->
                    IF activeRooms[i].status \in {Null, ""}
                    THEN "unknown" ELSE activeRooms[i].status])]

GetScrape ==
  /\ now <= LastRequestSec * MsPerSec
  /\ LET activeRooms == CleanExpiredForScrape(rooms, now)
     IN  /\ rooms' = activeRooms
         /\ resp' = ScrapeResponse(activeRooms)
         /\ hist' = [existed |-> FALSE,
                     removed |-> RoomIdsOf(rooms) \ RoomIdsOf(activeRooms)]
  /\ UNCHANGED <<now, usedNonces, nonceTimers, nonceLog>>

(***************************************************************************)
(* roomCleanupInterval: the periodic sweep, then the hard limit.           *)
(***************************************************************************)
\* Mutant of CleanExpiredPeriodic: the age is taken from createdAt alone.
CleanExpiredPeriodic_ByCreatedAt(rs, t) ==
  SelectSeq(rs, LAMBDA room :
    ~(room.createdAt # 0 /\ t - room.createdAt > PEER_TIMEOUT * MsPerSec))

CleanExpiredPeriodic(rs, t) ==
  SelectSeq(rs, LAMBDA room :
    ~(LastActivity(room) # 0 /\ t - LastActivity(room) > PEER_TIMEOUT * MsPerSec))

\* "Enforce hard limit": the roomCount - MAX_ROOMS rooms first in createdAt
\* order go.
EnforceHardLimit(rs) ==
  IF Len(rs) > MAX_ROOMS
  THEN LET toRemove == Len(rs) - MAX_ROOMS
           sortedRooms == StableSortByKey(rs, CreatedAts(rs))
           gone == {sortedRooms[i].roomId : i \in 1..toRemove}
       IN  SelectSeq(rs, LAMBDA r : r.roomId \notin gone)
  ELSE rs

roomCleanup(rs, t) == EnforceHardLimit(CleanExpiredPeriodic(rs, t))

RoomCleanupTick ==
  /\ rooms' = roomCleanup(rooms, now)
  /\ resp' = [op |-> "roomCleanupInterval"]
  /\ hist' = [existed |-> FALSE,
              removed |-> RoomIdsOf(rooms) \ RoomIdsOf(roomCleanup(rooms, now))]
  /\ UNCHANGED <<now, rateLimitMap, blockedIPs, client>>
  /\ UNCHANGED nonceVars

(***************************************************************************)
(* The requests the model sends.                                           *)
(***************************************************************************)
\* A creation payload with the mandatory fields only.
Plain(id) ==
  [roomId |-> id, appBaseUrl |-> "https://crate.ink", player1Name |-> "alice",
   player1WalletAddress |-> "xch1a", player1PeerId |-> "peer1"]

\* A payload that sets every optional field; the room is private.
Rich(id) ==
  [roomId |-> id, appBaseUrl |-> "https://crate.ink", player1Name |-> "alice",
   player1WalletAddress |-> "xch1a", player1PeerId |-> "peer1",
   gameType |-> "calpoker", status |-> "active", public |-> FALSE,
   player1WalletPuzzleHash |-> "ph", player2Name |-> "bob", wagerAmount |-> 5]

\* The partial update of the merge-semantics property: a status and nothing else.
StatusOnly(id) == [roomId |-> id, status |-> "active"]

\* A payload that supplies its own creation time, later than any server time.
ClientCreatedAt == MaxTime + MsPerSec
Dated(id) ==
  [roomId |-> id, appBaseUrl |-> "https://crate.ink", player1Name |-> "alice",
   player1WalletAddress |-> "xch1a", player1PeerId |-> "peer1",
   createdAt |-> ClientCreatedAt]

AnnounceInputs ==
  UNION {{Plain(id), Rich(id), StatusOnly(id), Dated(id)} : id \in UsedRoomIds}

\* Queries that carry at most includePrivate, and a few with other filters.
PrivacyQueries ==
  {<<>>} \cup {[includePrivate |-> v] : v \in {"true", "false", "1", "0", "yes"}}

QueryInputs ==
  PrivacyQueries \cup
  {[gameType |-> "calpoker", includePrivate |-> "true"],
   [status |-> "waiting"],
   [minWager |-> 1, maxWager |-> 5, includePrivate |-> "1"],
   [sort |-> "oldest", limit |-> 1]}

Init ==
  /\ rooms = <<>>
  /\ now = MsPerSec
  /\ resp = [op |-> "none"]
  /\ hist = [existed |-> FALSE, removed |-> {}]
  /\ rateLimitMap = <<>>
  /\ blockedIPs = <<>>
  /\ client = [ip |-> Null, method |-> Null, evicted |-> {}, hadBlock |-> FALSE]
  /\ usedNonces = <<>>
  /\ nonceTimers = <<>>
  /\ nonceLog = <<>>

Tick ==
  /\ now < MaxTime
  /\ now' = now + MsPerSec
  /\ resp' = [op |-> "none"]
  /\ hist' = [existed |-> FALSE, removed |-> {}]
  /\ client' = [ip |-> Null, method |-> Null, evicted |-> {}, hadBlock |-> FALSE]
  /\ UNCHANGED <<rooms, rateLimitMap, blockedIPs>>
  /\ UNCHANGED nonceVars

\* rateLimit with DISABLE_RATE_LIMIT set, as the test suite runs the server:
\* the middleware calls next() and touches neither table.
RateLimitDisabled == UNCHANGED <<rateLimitMap, blockedIPs, client>>

Next ==
  \/ \E data \in AnnounceInputs : PostAnnounce(data) /\ RateLimitDisabled
  \/ \E q \in QueryInputs : GetAnnounce(q) /\ RateLimitDisabled
  \/ GetScrape /\ RateLimitDisabled
  \/ RoomCleanupTick
  \/ Tick

Spec == Init /\ [][Next]_vars

\* The clock advances and the setInterval callback keeps firing.
SpecLive == Spec /\ WF_vars(Tick) /\ WF_vars(RoomCleanupTick)

(***************************************************************************)
(* Properties of the room registry.                                        *)
(***************************************************************************)
\* A record's last activity is more than PEER_TIMEOUT seconds before t.
ExpiredAt(room, t) ==
  LET lastActivity == IF room.updatedAt # 0 THEN room.updatedAt ELSE room.createdAt
  IN  t - lastActivity > PEER_TIMEOUT * MsPerSec

\* The step is the given handler.  Each handler names itself in resp', so
\* the first conjunct is implied by the second; it is there to be tested
\* first.
AnnounceStep(data) == resp'.op = "POST /announce" /\ PostAnnounce(data)
ListStep(q) == resp'.op = "GET /announce" /\ GetAnnounce(q)
ScrapeStep == resp'.op = "GET /scrape" /\ GetScrape
CleanupStep == resp'.op = "roomCleanupInterval" /\ RoomCleanupTick

\* The step is the TTL sweep of one of its three triggers.
IsSweepStep ==
  \/ \E q \in QueryInputs : ListStep(q) /\ resp'.code = 200
  \/ ScrapeStep
  \/ CleanupStep

\* C1: after any sequence of announce, list, stats and periodic-sweep
\* operations the registry holds at most MAX_ROOMS records.
C1_AtMostMaxRooms == Len(rooms) <= MAX_ROOMS

\* An announce has just evicted a record and the registry is at capacity.
C1_Witness ==
  /\ resp.op = "POST /announce" /\ resp.code = 200
  /\ hist.removed # {}
  /\ Len(rooms) = MAX_ROOMS

\* C2: a successful announce of a roomId that is not stored, arriving at a
\* registry of exactly MAX_ROOMS records, removes exactly one record, the one
\* with the smallest createdAt, stores the new room and leaves MAX_ROOMS
\* records.
C2_EvictsOldestForNewRoom ==
  [][\A data \in AnnounceInputs :
       (/\ Len(rooms) = MAX_ROOMS
        /\ ~HasRoom(rooms, data.roomId)
        /\ AnnounceStep(data) /\ resp'.code = 200)
       => /\ Len(rooms') = MAX_ROOMS
          /\ HasRoom(rooms', data.roomId)
          /\ Cardinality(RoomIdsOf(rooms) \ RoomIdsOf(rooms')) = 1
          /\ \A id \in RoomIdsOf(rooms) \ RoomIdsOf(rooms') :
               \A i \in 1..Len(rooms) :
                 GetRoom(rooms, id).createdAt <= rooms[i].createdAt
          /\ \A id \in RoomIdsOf(rooms) \cap RoomIdsOf(rooms') :
               GetRoom(rooms', id) = GetRoom(rooms, id)]_vars

\* A new room has just taken the place of an evicted one, while a room with
\* a later createdAt stayed at the head of the insertion order.
C2_Witness ==
  /\ resp.op = "POST /announce" /\ resp.code = 200
  /\ ~hist.existed
  /\ Cardinality(hist.removed) = 1
  /\ Len(rooms) = MAX_ROOMS
  /\ rooms[Len(rooms)] = resp.room
  /\ rooms[1].createdAt > resp.room.createdAt

\* C3: a successful announce of a roomId that is already stored leaves the
\* record's createdAt as it was, in every registry state, a full one
\* included.
C3_CreatedAtImmutable ==
  [][\A data \in AnnounceInputs :
       (/\ HasRoom(rooms, data.roomId)
        /\ AnnounceStep(data) /\ resp'.code = 200)
       => /\ HasRoom(rooms', data.roomId)
          /\ GetRoom(rooms', data.roomId).createdAt
               = GetRoom(rooms, data.roomId).createdAt]_vars

\* C4: announcing a stored roomId with a payload of only status "active"
\* succeeds, sets the status, keeps every other field and createdAt, and
\* moves updatedAt to the time of the announce.
C4_StatusOnlyUpdate ==
  [][\A id \in UsedRoomIds :
       (HasRoom(rooms, id) /\ AnnounceStep(StatusOnly(id)))
       => /\ resp'.code = 200
          /\ HasRoom(rooms', id)
          /\ GetRoom(rooms', id) =
               [GetRoom(rooms, id) EXCEPT !.status = "active", !.updatedAt = now]]_vars

\* C5: a successful announce that updates a stored roomId removes no record
\* from the registry, whatever the registry size.
C5_UpdateEvictsNothing ==
  [][\A data \in AnnounceInputs :
       (/\ HasRoom(rooms, data.roomId)
        /\ AnnounceStep(data) /\ resp'.code = 200)
       => RoomIdsOf(rooms) \subseteq RoomIdsOf(rooms')]_vars

\* C6: a room whose last activity is more than PEER_TIMEOUT seconds before
\* the time of a read is not among the rooms GET /announce returns and is
\* not counted in the totals of GET /announce and GET /scrape.
C6_ReadsSeeNoExpiredRoom ==
  [][LET live == {i \in 1..Len(rooms) : ~ExpiredAt(rooms[i], now)}
     IN  /\ \A q \in QueryInputs :
              (ListStep(q) /\ resp'.code = 200)
              => /\ \A i \in 1..Len(resp'.rooms) :
                      /\ ~ExpiredAt(resp'.rooms[i], now)
                      /\ \E j \in live : rooms[j] = resp'.rooms[i]
                 /\ resp'.total <= Cardinality(live)
         /\ ScrapeStep => resp'.total = Cardinality(live)]_vars

\* A read has just met an expired room, dropped it and answered with a live
\* one.
C6_Witness ==
  /\ resp.op \in {"GET /announce", "GET /scrape"} /\ resp.code = 200
  /\ hist.removed # {}
  /\ resp.total >= 1

\* C7: every TTL sweep at time now, from GET /announce, from GET /scrape or
\* from the periodic tick, removes exactly the records with
\* now - lastActivity > PEER_TIMEOUT seconds and keeps the others, one exactly
\* PEER_TIMEOUT seconds old included; the three triggers leave the same
\* registry on the same state and time.
C7_SweepsAgree ==
  [][LET kept == SelectSeq(rooms, LAMBDA room : ~ExpiredAt(room, now))
     IN  /\ IsSweepStep => rooms' = kept
         /\ CleanExpiredForList(rooms, now) = kept
         /\ CleanExpiredForScrape(rooms, now) = kept
         /\ roomCleanup(rooms, now) = kept]_vars

\* A sweep has just removed a room and kept one that is exactly PEER_TIMEOUT
\* seconds old.
C7_Witness ==
  /\ resp.op \in {"GET /announce", "GET /scrape", "roomCleanupInterval"}
  /\ hist.removed # {}
  /\ \E i \in 1..Len(rooms) : now - rooms[i].updatedAt = PEER_TIMEOUT * MsPerSec

\* C8: once requests have stopped and while the periodic sweep keeps ticking,
\* every stored room is eventually removed and the registry becomes empty;
\* no expired room survives a periodic tick.
C8_IdleRegistryEmpties ==
  /\ (Len(rooms) > 0) ~> (Len(rooms) = 0)
  /\ [][CleanupStep => \A i \in 1..Len(rooms') : ~ExpiredAt(rooms'[i], now)]_vars

\* After the last request time the periodic tick has just emptied the
\* registry.
C8_Witness ==
  /\ now > LastRequestSec * MsPerSec
  /\ resp.op = "roomCleanupInterval"
  /\ hist.removed # {}
  /\ Len(rooms) = 0

\* C9: every successful announce sets the room's updatedAt to the current
\* time, and no TTL sweep removes a room announced at most PEER_TIMEOUT
\* seconds before it, so a room re-announced at such intervals stays.
C9_AnnounceKeepsAlive ==
  [][/\ \A data \in AnnounceInputs :
          (AnnounceStep(data) /\ resp'.code = 200)
          => /\ HasRoom(rooms', data.roomId)
             /\ GetRoom(rooms', data.roomId).updatedAt = now
     /\ IsSweepStep
          => \A i \in 1..Len(rooms) :
               (now - rooms[i].updatedAt <= PEER_TIMEOUT * MsPerSec)
               => \E j \in 1..Len(rooms') : rooms'[j] = rooms[i]]_vars

\* A sweep has just kept a room that was created more than PEER_TIMEOUT
\* seconds ago and re-announced since.
C9_Witness ==
  /\ resp.op \in {"GET /announce", "GET /scrape", "roomCleanupInterval"}
  /\ \E i \in 1..Len(rooms) :
       /\ now - rooms[i].createdAt > PEER_TIMEOUT * MsPerSec
       /\ rooms[i].updatedAt > rooms[i].createdAt

\* C10: GET /announce without includePrivate, or with false or 0, returns
\* no room whose public flag is false and counts none in total; with true or
\* 1 it returns the private rooms too.
C10_PrivateRoomsHidden ==
  [][\A q \in QueryInputs :
       (ListStep(q) /\ resp'.code = 200)
       => LET live == SelectSeq(rooms, LAMBDA room : ~ExpiredAt(room, now))
              public == SelectSeq(live, LAMBDA room : room.public)
              shown == {resp'.rooms[i] : i \in 1..Len(resp'.rooms)}
              asksPrivate ==
                Has(q, "includePrivate") /\ q.includePrivate \in {"true", "1"}
          IN  /\ ~asksPrivate
                   => /\ \A room \in shown : room.public
                      /\ resp'.total <= Len(public)
              \* No other filter: the page is the whole visible set.
              /\ (q \in PrivacyQueries /\ asksPrivate)
                   => /\ shown = {live[i] : i \in 1..Len(live)}
                      /\ resp'.total = Len(live)
              /\ (q \in PrivacyQueries /\ ~asksPrivate)
                   => /\ shown = {public[i] : i \in 1..Len(public)}
                      /\ resp'.total = Len(public)]_vars

\* A list has just left a stored private room out and returned a public one.
C10_Witness ==
  /\ resp.op = "GET /announce" /\ resp.code = 200
  /\ \E i \in 1..Len(rooms) : rooms[i].public = FALSE
  /\ resp.total = 1 /\ Len(rooms) = MAX_ROOMS
  /\ \A i \in 1..Len(resp.rooms) : resp.rooms[i].public

(***************************************************************************)
(* The listing options of GET /announce: wager range, sort and pagination. *)
(* The registry is filled with rooms of different wagers and creation      *)
(* times and queried with every combination of the options below.         *)
(***************************************************************************)
\* A creation payload with a wager.
Staked(id, w) ==
  [roomId |-> id, appBaseUrl |-> "https://crate.ink", player1Name |-> "alice",
   player1WalletAddress |-> "xch1a", player1PeerId |-> "peer1",
   wagerAmount |-> w]

StakedWagers == {0, 5}

\* As many room ids as the registry holds: the listing needs no eviction.
ListedRoomIds == {IdOrder[i] : i \in 1..MAX_ROOMS}

ListingAnnounces ==
  {Staked(id, w) : id \in ListedRoomIds, w \in StakedWagers}
    \cup {Dated(IdOrder[1]), Rich(IdOrder[2])}

\* A query string with the given parameters; Absent and Default leave a
\* parameter out.
Absent == -1
Default == "<default>"
NumParam(k, v) == IF v = Absent THEN <<>> ELSE (k :> v)
Query(minWager, maxWager, sort, offset, limit) ==
  NumParam("minWager", minWager) @@ NumParam("maxWager", maxWager)
    @@ (IF sort = Default THEN <<>> ELSE ("sort" :> sort))
    @@ NumParam("offset", offset) @@ NumParam("limit", limit)

WagerQueries ==
  {Query(lo, hi, Default, Absent, Absent) :
     lo \in {Absent, 0, 3, 5}, hi \in {Absent, 0, 3, 5}}

SortNames == {"newest", "oldest", "wager_high", "wager_low"}

SortQueries ==
  {Query(Absent, Absent, s, Absent, n) : s \in SortNames \cup {Default}, n \in {Absent, 1}}

PageQueries ==
  {Query(Absent, Absent, s, k, n) :
     s \in {Default, "wager_low"}, k \in {Absent, 1, 2}, n \in {Absent, 1}}

ListingQueries == WagerQueries \cup SortQueries \cup PageQueries

NextListing ==
  \/ \E data \in ListingAnnounces : PostAnnounce(data) /\ RateLimitDisabled
  \/ \E q \in ListingQueries : GetAnnounce(q) /\ RateLimitDisabled
  \/ Tick

SpecListing == Init /\ [][NextListing]_vars

\* The rooms a query without includePrivate, gameType and status can list:
\* the stored rooms that are not private.
Listable(rs) == SelectSeq(rs, LAMBDA r : r.public # FALSE)

\* The parameter k of query q, or d when q leaves it out.
Param(q, k, d) == IF Has(q, k) THEN q[k] ELSE d

Min(a, b) == IF a < b THEN a ELSE b
Max(a, b) == IF a > b THEN a ELSE b

\* The step is GET /announce with query q, answered 200.  The handler echoes
\* the offset and the limit it used, so the conjuncts before the last are
\* implied by it for a query whose offset is at least 0 and whose limit is
\* between 1 and MaxLimit; they are there to be tested first.
ListedStep(q) ==
  /\ resp'.op = "GET /announce" /\ resp'.code = 200
  /\ resp'.offset = Param(q, "offset", 0)
  /\ resp'.limit = Param(q, "limit", DefaultLimit)
  /\ GetAnnounce(q)

\* The step is GET /announce with query q, answered 400.
RefusedStep(q) ==
  /\ resp'.op = "GET /announce" /\ resp'.code = 400
  /\ GetAnnounce(q)

\* C11: for every accepted pair minWager, maxWager (0 included, defaults 0
\* and no upper limit) the listing returns exactly the rooms passing the
\* other filters whose wagerAmount lies in [minWager, maxWager].
C11_WagerRangeInclusive ==
  [][\A q \in WagerQueries :
       ListedStep(q)
       => LET pool == Listable(rooms')
              InRange(w) ==
                /\ Param(q, "minWager", 0) <= w
                /\ (Has(q, "maxWager") => w <= q.maxWager)
          IN  {resp'.rooms[i] : i \in 1..Len(resp'.rooms)}
                = {pool[i] : i \in {j \in 1..Len(pool) : InRange(pool[j].wagerAmount)}}]_vars

\* The pages of size n of query q over registry rs at offsets from * n on,
\* up to the page at offset upTo * n, one after the other.
RECURSIVE PagesFrom(_, _, _, _, _)
PagesFrom(rs, q, n, from, upTo) ==
  IF from > upTo THEN <<>>
  ELSE ListResponse(rs, ("offset" :> from * n) @@ ("limit" :> n) @@ q).rooms
         \o PagesFrom(rs, q, n, from + 1, upTo)

\* C12: with T matching rooms, offset k and limit n give min(n, max(0, T-k))
\* rooms and total T, never an error; the page is the slice of the
\* unpaginated list at k, and the pages at offsets 0, n, 2n, ... one after
\* the other are that list.
C12_PagesPartitionTheList ==
  [][\A q \in PageQueries :
       /\ ~RefusedStep(q)
       /\ ListedStep(q) =>
            LET T == Len(Listable(rooms'))
                k == Param(q, "offset", 0)
                n == Param(q, "limit", DefaultLimit)
                whole == ListResponse(rooms', Query(Absent, Absent, Param(q, "sort", Default),
                                                    Absent, Absent)).rooms
            IN  /\ resp'.total = T
                /\ Len(resp'.rooms) = Min(n, Max(0, T - k))
                /\ Len(whole) = T
                /\ \A i \in 1..Len(resp'.rooms) : resp'.rooms[i] = whole[k + i]
                /\ PagesFrom(rooms', q, n, 0, T) = whole]_vars

\* A listing answered the second of two pages of one room each.
C12_Witness ==
  /\ resp.op = "GET /announce" /\ resp.code = 200
  /\ resp.offset = 1 /\ resp.limit = 1
  /\ resp.total = 2 /\ Len(resp.rooms) = 1
  /\ Len(Listable(rooms)) = 2

\* C13: the field 'complete' of a listing is the number of rooms matching
\* the filters, whatever the offset and the limit.
C13_CompleteIsTotalMatching ==
  [][\A q \in PageQueries :
       ListedStep(q)
       => resp'.complete = Len(Listable(rooms'))]_vars

\* Room a may stand before room b in the order the sort parameter names.
InOrder(sort, a, b) ==
  CASE sort = "oldest" -> a.createdAt <= b.createdAt
    [] sort = "wager_high" -> a.wagerAmount >= b.wagerAmount
    [] sort = "wager_low" -> a.wagerAmount <= b.wagerAmount
    [] OTHER -> a.createdAt >= b.createdAt

\* C14: the listing is in createdAt-descending order for newest and without
\* sort, createdAt-ascending for oldest, wagerAmount-descending for
\* wager_high and ascending for wager_low; the order is that of all matching
\* rooms, of which the page is a part: the room at place i of the page at
\* offset k may stand at place k + i of the ordered matching rooms.
C14_SortedBeforePagination ==
  [][\A q \in SortQueries \cup PageQueries :
       ListedStep(q)
       => LET sort == Param(q, "sort", "newest")
              k == Param(q, "offset", 0)
              page == resp'.rooms
              pool == Listable(rooms')
              Others(r) == {j \in 1..Len(pool) : pool[j] # r}
              MustPrecede(r) == {j \in Others(r) : ~InOrder(sort, r, pool[j])}
              MayPrecede(r) == {j \in Others(r) : InOrder(sort, pool[j], r)}
          IN  /\ \A i, j \in 1..Len(page) : i < j => InOrder(sort, page[i], page[j])
              /\ \A i \in 1..Len(page) :
                   /\ Cardinality(MustPrecede(page[i])) <= k + i - 1
                   /\ Cardinality(MayPrecede(page[i])) >= k + i - 1]_vars

\* A listing returned two rooms, the later created one first, against the
\* order in which the registry stores them.
C14_Witness ==
  /\ resp.op = "GET /announce" /\ resp.code = 200
  /\ Len(resp.rooms) = 2
  /\ resp.rooms[1].createdAt > resp.rooms[2].createdAt
  /\ resp.rooms[1] = rooms[2]

(***************************************************************************)
(* The rateLimit middleware with DISABLE_RATE_LIMIT unset, the block table *)
(* and their periodic sweeps.  `rateLimitMap` is a sequence of entries     *)
(* [ip, count, announceCount, resetTime, violations] and `blockedIPs` a    *)
(* sequence of entries [ip, blockedUntil, reason], both in the insertion   *)
(* order of the Map.  The windows, thresholds and the table cap are the    *)
(* source's scaled down to the model's clock.                              *)
(***************************************************************************)
\* 60 * 1000 in the source.
RATE_LIMIT_WINDOW == 1000
\* 120 and 20 in the source.
RATE_LIMIT_MAX_REQUESTS == 2
RATE_LIMIT_MAX_ANNOUNCES == 1
\* 1000 in the source.
MAX_RATE_LIMIT_ENTRIES == 2
\* 10 in the source.
MAX_VIOLATIONS == 2
\* 5 * 60 * 1000 in the source.
BLOCK_DURATION == 2000
\* new Set(), which nothing populates.
BLOCKED_IPS == {}

\* The addresses rateLimit and blockIP compare the client address with.
LocalhostIPs == {"127.0.0.1", "::1", "::ffff:127.0.0.1", "localhost"}

\* Map.prototype.has / get / delete / set on a table keyed by ip.
HasIP(table, ip) == \E i \in 1..Len(table) : table[i].ip = ip
GetIP(table, ip) == table[CHOOSE i \in 1..Len(table) : table[i].ip = ip]
DeleteIP(table, ip) == SelectSeq(table, LAMBDA e : e.ip # ip)
SetIP(table, entry) ==
  IF HasIP(table, entry.ip)
  THEN [i \in 1..Len(table) |-> IF table[i].ip = entry.ip THEN entry ELSE table[i]]
  ELSE Append(table, entry)

\* Mutant of isIPBlocked: still blocked at the instant blockedUntil.
isIPBlocked_AtExpiry(ip, blocked, t) ==
  IF ip \in BLOCKED_IPS
  THEN [blocked |-> TRUE, reason |-> "Permanently blocked", blockedIPs |-> blocked]
  ELSE IF HasIP(blocked, ip)
       THEN IF t <= GetIP(blocked, ip).blockedUntil
            THEN [blocked |-> TRUE, reason |-> GetIP(blocked, ip).reason,
                  blockedIPs |-> blocked]
            ELSE [blocked |-> FALSE, reason |-> Null, blockedIPs |-> DeleteIP(blocked, ip)]
       ELSE [blocked |-> FALSE, reason |-> Null, blockedIPs |-> blocked]

\* Mutant of isIPBlocked: an expired block stays in the table.
isIPBlocked_KeepsExpired(ip, blocked, t) ==
  IF ip \in BLOCKED_IPS
  THEN [blocked |-> TRUE, reason |-> "Permanently blocked", blockedIPs |-> blocked]
  ELSE IF HasIP(blocked, ip) /\ t < GetIP(blocked, ip).blockedUntil
       THEN [blocked |-> TRUE, reason |-> GetIP(blocked, ip).reason,
             blockedIPs |-> blocked]
       ELSE [blocked |-> FALSE, reason |-> Null, blockedIPs |-> blocked]

\* isIPBlocked: the verdict and the block table it leaves, an expired block
\* of the address removed.
isIPBlocked(ip, blocked, t) ==
  IF ip \in BLOCKED_IPS
  THEN [blocked |-> TRUE, reason |-> "Permanently blocked", blockedIPs |-> blocked]
  ELSE IF HasIP(blocked, ip)
       THEN IF t < GetIP(blocked, ip).blockedUntil
            THEN [blocked |-> TRUE, reason |-> GetIP(blocked, ip).reason,
                  blockedIPs |-> blocked]
            ELSE [blocked |-> FALSE, reason |-> Null, blockedIPs |-> DeleteIP(blocked, ip)]
       ELSE [blocked |-> FALSE, reason |-> Null, blockedIPs |-> blocked]

\* Mutant of blockIP: localhost is blocked like any address.
blockIP_NoExemption(ip, reason, blocked, t) ==
  SetIP(blocked, [ip |-> ip, blockedUntil |-> t + BLOCK_DURATION, reason |-> reason])

\* blockIP with the default duration.
blockIP(ip, reason, blocked, t) ==
  IF ip \in LocalhostIPs
  THEN blocked
  ELSE SetIP(blocked, [ip |-> ip, blockedUntil |-> t + BLOCK_DURATION, reason |-> reason])

\* "Enforce hard limit on rateLimitMap size": the entries with the smallest
\* resetTime go.
\* Mutant of EnforceEntryLimit: the entries inserted first are removed.
EnforceEntryLimit_FirstInserted(map) ==
  IF Len(map) > MAX_RATE_LIMIT_ENTRIES
  THEN SubSeq(map, Len(map) - MAX_RATE_LIMIT_ENTRIES + 1, Len(map))
  ELSE map

\* Mutant of EnforceEntryLimit: among entries with the same resetTime the
\* ones inserted last are removed first.
EnforceEntryLimit_TiesNewestFirst(map) ==
  IF Len(map) > MAX_RATE_LIMIT_ENTRIES
  THEN LET entries == StableSortByKey(map, [i \in 1..Len(map) |->
                                        map[i].resetTime * (Len(map) + 1) - i])
           toRemove == Len(map) - MAX_RATE_LIMIT_ENTRIES
           removed == {entries[i].ip : i \in 1..toRemove}
       IN  SelectSeq(map, LAMBDA e : e.ip \notin removed)
  ELSE map

EnforceEntryLimit(map) ==
  IF Len(map) > MAX_RATE_LIMIT_ENTRIES
  THEN LET entries == StableSortByKey(map, [i \in 1..Len(map) |-> map[i].resetTime])
           toRemove == Len(map) - MAX_RATE_LIMIT_ENTRIES
           removed == {entries[i].ip : i \in 1..toRemove}
       IN  SelectSeq(map, LAMBDA e : e.ip \notin removed)
  ELSE map

\* Mutant of WindowEntry: a new window starts at the instant resetTime.
WindowEntry_AtReset(ip, map, t) ==
  IF ~HasIP(map, ip) \/ t >= GetIP(map, ip).resetTime
  THEN [ip |-> ip, count |-> 0, announceCount |-> 0,
        resetTime |-> t + RATE_LIMIT_WINDOW, violations |-> 0]
  ELSE GetIP(map, ip)

\* The entry rateLimit works on: the stored one, or a fresh one when there
\* is none or its window is over.
WindowEntry(ip, map, t) ==
  IF ~HasIP(map, ip) \/ t > GetIP(map, ip).resetTime
  THEN [ip |-> ip, count |-> 0, announceCount |-> 0,
        resetTime |-> t + RATE_LIMIT_WINDOW, violations |-> 0]
  ELSE GetIP(map, ip)

\* Mutant of CountRequest: every request counts against both quotas.
CountRequest_SharedCounter(ip, method, map, blocked, t) ==
  LET rateLimitData == WindowEntry(ip, map, t)
      capped == EnforceEntryLimit(SetIP(map, rateLimitData))
      isPost == method = "POST"
      counted == [rateLimitData EXCEPT
                    !.announceCount = @ + 1,
                    !.count = @ + 1]
      exceeded == IF isPost
                  THEN counted.announceCount > RATE_LIMIT_MAX_ANNOUNCES
                  ELSE counted.count > RATE_LIMIT_MAX_REQUESTS
      final == IF exceeded THEN [counted EXCEPT !.violations = @ + 1] ELSE counted
      stored == IF HasIP(capped, ip) THEN SetIP(capped, final) ELSE capped
  IN  IF exceeded
      THEN [next |-> FALSE, code |-> 429, rateLimitMap |-> stored,
            blockedIPs |->
              IF final.violations >= MAX_VIOLATIONS
              THEN blockIP(ip, IF isPost THEN "Excessive announce attempts"
                                         ELSE "Excessive requests", blocked, t)
              ELSE blocked]
      ELSE [next |-> TRUE, code |-> 200, rateLimitMap |-> stored, blockedIPs |-> blocked]

\* Mutant of CountRequest: an address that loses its limiter entry to the
\* size cap loses its block as well.
CountRequest_EvictionUnblocks(ip, method, map, blocked, t) ==
  LET rateLimitData == WindowEntry(ip, map, t)
      capped == EnforceEntryLimit(SetIP(map, rateLimitData))
      kept == SelectSeq(blocked, LAMBDA b : ~HasIP(map, b.ip) \/ HasIP(capped, b.ip))
      isPost == method = "POST"
      counted == [rateLimitData EXCEPT
                    !.announceCount = IF isPost THEN @ + 1 ELSE @,
                    !.count = IF isPost THEN @ ELSE @ + 1]
      exceeded == IF isPost
                  THEN counted.announceCount > RATE_LIMIT_MAX_ANNOUNCES
                  ELSE counted.count > RATE_LIMIT_MAX_REQUESTS
      final == IF exceeded THEN [counted EXCEPT !.violations = @ + 1] ELSE counted
      stored == IF HasIP(capped, ip) THEN SetIP(capped, final) ELSE capped
  IN  IF exceeded
      THEN [next |-> FALSE, code |-> 429, rateLimitMap |-> stored,
            blockedIPs |->
              IF final.violations >= MAX_VIOLATIONS
              THEN blockIP(ip, IF isPost THEN "Excessive announce attempts"
                                         ELSE "Excessive requests", kept, t)
              ELSE kept]
      ELSE [next |-> TRUE, code |-> 200, rateLimitMap |-> stored, blockedIPs |-> kept]

\* The counting part of rateLimit.  rateLimitData is the object stored in
\* the Map, so what is written to it shows in the Map as long as the entry
\* is still there.
CountRequest(ip, method, map, blocked, t) ==
  LET rateLimitData == WindowEntry(ip, map, t)
      capped == EnforceEntryLimit(SetIP(map, rateLimitData))
      isPost == method = "POST"
      counted == [rateLimitData EXCEPT
                    !.announceCount = IF isPost THEN @ + 1 ELSE @,
                    !.count = IF isPost THEN @ ELSE @ + 1]
      exceeded == IF isPost
                  THEN counted.announceCount > RATE_LIMIT_MAX_ANNOUNCES
                  ELSE counted.count > RATE_LIMIT_MAX_REQUESTS
      final == IF exceeded THEN [counted EXCEPT !.violations = @ + 1] ELSE counted
      stored == IF HasIP(capped, ip) THEN SetIP(capped, final) ELSE capped
  IN  IF exceeded
      THEN [next |-> FALSE, code |-> 429, rateLimitMap |-> stored,
            blockedIPs |->
              IF final.violations >= MAX_VIOLATIONS
              THEN blockIP(ip, IF isPost THEN "Excessive announce attempts"
                                         ELSE "Excessive requests", blocked, t)
              ELSE blocked]
      ELSE [next |-> TRUE, code |-> 200, rateLimitMap |-> stored, blockedIPs |-> blocked]

\* Mutant of rateLimit: localhost is counted like any address.
rateLimit_NoBypass(ip, method, map, blocked, t) ==
  LET blockStatus == isIPBlocked(ip, blocked, t)
  IN  IF blockStatus.blocked
      THEN [next |-> FALSE, code |-> 403, rateLimitMap |-> map,
            blockedIPs |-> blockStatus.blockedIPs]
      ELSE CountRequest(ip, method, map, blockStatus.blockedIPs, t)

\* Mutant of rateLimit: a request of a blocked address starts the block
\* duration again.
rateLimit_BlockedExtends(ip, method, map, blocked, t) ==
  LET blockStatus == isIPBlocked(ip, blocked, t)
  IN  IF blockStatus.blocked
      THEN [next |-> FALSE, code |-> 403, rateLimitMap |-> map,
            blockedIPs |-> blockIP(ip, blockStatus.reason, blockStatus.blockedIPs, t)]
      ELSE IF ip \in LocalhostIPs
           THEN [next |-> TRUE, code |-> 200, rateLimitMap |-> map,
                 blockedIPs |-> blockStatus.blockedIPs]
           ELSE CountRequest(ip, method, map, blockStatus.blockedIPs, t)

\* rateLimit: whether next() is called or which status is sent, and the two
\* tables afterwards.
rateLimit(ip, method, map, blocked, t) ==
  LET blockStatus == isIPBlocked(ip, blocked, t)
  IN  IF blockStatus.blocked
      THEN [next |-> FALSE, code |-> 403, rateLimitMap |-> map,
            blockedIPs |-> blockStatus.blockedIPs]
      ELSE IF ip \in LocalhostIPs
           THEN [next |-> TRUE, code |-> 200, rateLimitMap |-> map,
                 blockedIPs |-> blockStatus.blockedIPs]
           ELSE CountRequest(ip, method, map, blockStatus.blockedIPs, t)

\* Mutant of Middleware: the block table is consulted before the switch.
Middleware_BlocksFirst(DISABLE_RATE_LIMIT, ip, method, map, blocked, t) ==
  IF isIPBlocked(ip, blocked, t).blocked \/ ~DISABLE_RATE_LIMIT
  THEN rateLimit(ip, method, map, blocked, t)
  ELSE [next |-> TRUE, code |-> 200, rateLimitMap |-> map, blockedIPs |-> blocked]

\* rateLimit from its first line: with DISABLE_RATE_LIMIT set it calls
\* next() before it reads the address or either table.
Middleware(DISABLE_RATE_LIMIT, ip, method, map, blocked, t) ==
  IF DISABLE_RATE_LIMIT
  THEN [next |-> TRUE, code |-> 200, rateLimitMap |-> map, blockedIPs |-> blocked]
  ELSE rateLimit(ip, method, map, blocked, t)

\* Mutant of rateLimitCleanup: an expired entry is deleted whatever its
\* violations.
rateLimitCleanup_DropsExpired(map, t) ==
  SelectSeq(map, LAMBDA e : ~(t > e.resetTime))

\* rateLimitCleanupInterval.
rateLimitCleanup(map, t) ==
  LET decayed == [i \in 1..Len(map) |->
                    IF t > map[i].resetTime /\ map[i].violations > 0
                    THEN [map[i] EXCEPT !.violations = @ - 1]
                    ELSE map[i]]
  IN  SelectSeq(decayed, LAMBDA e :
        ~(t > e.resetTime /\ GetIP(map, e.ip).violations = 0))

\* ipBlockCleanupInterval.
ipBlockCleanup(blocked, t) ==
  SelectSeq(blocked, LAMBDA e : ~(t >= e.blockedUntil) /\ e.ip \notin LocalhostIPs)

\* The entries of other addresses that an admission check of ip has
\* removed from the limiter table (kept in client for the properties).
Evicted(ip, before, after) ==
  {before[i] : i \in {j \in 1..Len(before) :
                        before[j].ip # ip /\ ~HasIP(after, before[j].ip)}}

\* A request on a route behind rateLimit: the middleware, then the handler
\* if it calls next().
Limited(ip, method, Handler) ==
  LET admission == rateLimit(ip, method, rateLimitMap, blockedIPs, now)
  IN  /\ now <= LastRequestSec * MsPerSec
      /\ rateLimitMap' = admission.rateLimitMap
      /\ blockedIPs' = admission.blockedIPs
      /\ client' = [ip |-> ip, method |-> method,
                     evicted |-> Evicted(ip, rateLimitMap, admission.rateLimitMap),
                     hadBlock |-> HasIP(blockedIPs, ip)]
      /\ IF admission.next
         THEN Handler
         ELSE /\ resp' = [op |-> "rateLimit", code |-> admission.code]
              /\ hist' = [existed |-> FALSE, removed |-> {}]
              /\ UNCHANGED <<rooms, now>>
              /\ UNCHANGED nonceVars

RateLimitCleanupTick ==
  /\ rateLimitMap' = rateLimitCleanup(rateLimitMap, now)
  /\ resp' = [op |-> "rateLimitCleanupInterval"]
  /\ hist' = [existed |-> FALSE, removed |-> {}]
  /\ UNCHANGED <<rooms, now, blockedIPs, client>>
  /\ UNCHANGED nonceVars

IpBlockCleanupTick ==
  /\ blockedIPs' = ipBlockCleanup(blockedIPs, now)
  /\ resp' = [op |-> "ipBlockCleanupInterval"]
  /\ hist' = [existed |-> FALSE, removed |-> {}]
  /\ UNCHANGED <<rooms, now, rateLimitMap, client>>
  /\ UNCHANGED nonceVars

\* The clients: one on the host itself and one remote.
RemoteIPs == {"203.0.113.1"}
ClientIPs == {"127.0.0.1"} \cup RemoteIPs

LimitedRead(ip) == Limited(ip, "GET", GetScrape)
LimitedWrite(ip) == Limited(ip, "POST", PostAnnounce(Plain(IdOrder[1])))

NextLimiter ==
  \/ \E ip \in ClientIPs : LimitedRead(ip)
  \/ \E ip \in ClientIPs : LimitedWrite(ip)
  \/ RateLimitCleanupTick
  \/ IpBlockCleanupTick
  \/ Tick

SpecLimiter == Init /\ [][NextLimiter]_vars
\* The clock advances and setInterval keeps calling the limiter sweep.
SpecLimiterLive == SpecLimiter /\ WF_vars(Tick) /\ WF_vars(RateLimitCleanupTick)

\* More remote clients than the limiter table holds, reading the statistics.
CrowdIPs == {"203.0.113.1", "203.0.113.2", "203.0.113.3"}

NextCrowd ==
  \/ \E ip \in CrowdIPs : LimitedRead(ip)
  \/ RateLimitCleanupTick
  \/ IpBlockCleanupTick
  \/ Tick

SpecCrowd == Init /\ [][NextCrowd]_vars

(***************************************************************************)
(* The middleware with DISABLE_RATE_LIMIT set, over limiter and block      *)
(* tables as the limiter leaves them.  The switch is read once at start    *)
(* and nothing but rateLimit fills the tables, so a server started with    *)
(* the switch set has them empty; the other tables are given to the        *)
(* middleware as inputs: those that stand after some requests of one       *)
(* remote address at the first instant, up to the request that blocks it.  *)
(***************************************************************************)
RECURSIVE TablesAfter(_)
TablesAfter(n) ==
  IF n = 0
  THEN [rateLimitMap |-> <<>>, blockedIPs |-> <<>>]
  ELSE LET before == TablesAfter(n - 1)
           admission == rateLimit(CHOOSE ip \in RemoteIPs : TRUE, "GET",
                                  before.rateLimitMap, before.blockedIPs, MsPerSec)
       IN  [rateLimitMap |-> admission.rateLimitMap,
            blockedIPs |-> admission.blockedIPs]

InitOpen ==
  /\ rooms = <<>>
  /\ now = MsPerSec
  /\ resp = [op |-> "none"]
  /\ hist = [existed |-> FALSE, removed |-> {}]
  /\ \E n \in 0..(RATE_LIMIT_MAX_REQUESTS + MAX_VIOLATIONS) :
        /\ rateLimitMap = TablesAfter(n).rateLimitMap
        /\ blockedIPs = TablesAfter(n).blockedIPs
  /\ client = [ip |-> Null, method |-> Null, evicted |-> {}, hadBlock |-> FALSE]
  /\ usedNonces = <<>>
  /\ nonceTimers = <<>>
  /\ nonceLog = <<>>

\* A request on a route behind the middleware with the switch set.
Open(ip, method, Handler) ==
  LET admission == Middleware(TRUE, ip, method, rateLimitMap, blockedIPs, now)
  IN  /\ now <= LastRequestSec * MsPerSec
      /\ rateLimitMap' = admission.rateLimitMap
      /\ blockedIPs' = admission.blockedIPs
      /\ client' = [ip |-> ip, method |-> method,
                     evicted |-> Evicted(ip, rateLimitMap, admission.rateLimitMap),
                     hadBlock |-> HasIP(blockedIPs, ip)]
      /\ IF admission.next
         THEN Handler
         ELSE /\ resp' = [op |-> "rateLimit", code |-> admission.code]
              /\ hist' = [existed |-> FALSE, removed |-> {}]
              /\ UNCHANGED <<rooms, now>>
              /\ UNCHANGED nonceVars

OpenRead(ip) == Open(ip, "GET", GetScrape)
OpenWrite(ip) == Open(ip, "POST", PostAnnounce(Plain(IdOrder[1])))

NextOpen ==
  \/ \E ip \in ClientIPs : OpenRead(ip)
  \/ \E ip \in ClientIPs : OpenWrite(ip)
  \/ RateLimitCleanupTick
  \/ IpBlockCleanupTick
  \/ Tick

SpecOpen == InitOpen /\ [][NextOpen]_vars

(***************************************************************************)
(* Announces that carry a nonce, with DISABLE_RATE_LIMIT set: one more     *)
(* nonce than usedNonces holds, for one room.                              *)
(***************************************************************************)
Nonces == {"n1", "n2", "n3"}

\* A valid payload with a nonce, and the same payload without its
\* mandatory player1Name.
Signed(id, nonce) == Plain(id) @@ [nonce |-> nonce]
Nameless(id, nonce) ==
  [k \in DOMAIN Signed(id, nonce) \ {"player1Name"} |-> Signed(id, nonce)[k]]

ReplayAnnounces ==
  {Signed(IdOrder[1], nonce) : nonce \in Nonces}
    \cup {Nameless(IdOrder[1], "n1")}

NextReplay ==
  \/ \E data \in ReplayAnnounces : PostAnnounce(data) /\ RateLimitDisabled
  \/ NonceTimeout
  \/ Tick

SpecReplay == Init /\ [][NextReplay]_vars
SpecReplayLive == SpecReplay /\ WF_vars(Tick) /\ WF_vars(NonceTimeout)

(***************************************************************************)
(* Announces that carry a timestamp, with DISABLE_RATE_LIMIT set: the      *)
(* server time, the two times at the tolerance, the two times just beyond  *)
(* it, and the timestamp 0.                                                *)
(***************************************************************************)
Stamped(id, timestamp) == Plain(id) @@ [timestamp |-> timestamp]

TimestampOffsets ==
  {0, TimestampTolerance, 0 - TimestampTolerance,
   TimestampTolerance + 1, 0 - (TimestampTolerance + 1)}

StampedAnnounces(t) ==
  UNION {{Plain(id), Stamped(id, 0)} \cup {Stamped(id, t + d) : d \in TimestampOffsets}
         : id \in ListedRoomIds}

NextStamped ==
  \/ \E data \in StampedAnnounces(now) : PostAnnounce(data) /\ RateLimitDisabled
  \/ Tick

SpecStamped == Init /\ [][NextStamped]_vars

(***************************************************************************)
(* Announces with and without a nonce behind the middleware, from the      *)
(* remote client and for more rooms than the registry holds.               *)
(***************************************************************************)
GuardedAnnounces ==
  UNION {{Plain(id), Signed(id, "n1")} : id \in UsedRoomIds}

\* Mutant of GuardedWrite: the replay guard runs before the limiter, so a
\* request that is denied has recorded its nonce.
GuardedWrite_ReplayGuardFirst(ip, data) ==
  LET admission == rateLimit(ip, "POST", rateLimitMap, blockedIPs, now)
  IN  IF admission.next
      THEN Limited(ip, "POST", PostAnnounce(data))
      ELSE /\ now <= LastRequestSec * MsPerSec
           /\ TruthyStr(data, "nonce") => Len(nonceTimers) < MaxTimers
           /\ rateLimitMap' = admission.rateLimitMap
           /\ blockedIPs' = admission.blockedIPs
           /\ client' = [ip |-> ip, method |-> "POST",
                         evicted |-> Evicted(ip, rateLimitMap, admission.rateLimitMap),
                         hadBlock |-> HasIP(blockedIPs, ip)]
           /\ resp' = [op |-> "rateLimit", code |-> admission.code]
           /\ hist' = [existed |-> FALSE, removed |-> {}]
           /\ usedNonces' = validateNonce(data, usedNonces).usedNonces
           /\ nonceTimers' = ScheduleNonceCleanup(data, nonceTimers, now)
           /\ UNCHANGED <<rooms, now, nonceLog>>

\* app.post('/announce', rateLimit, handler) for a payload with a nonce.
GuardedWrite(ip, data) == Limited(ip, "POST", PostAnnounce(data))

NextGuarded ==
  \/ \E ip \in RemoteIPs, data \in GuardedAnnounces : GuardedWrite(ip, data)
  \/ NonceTimeout
  \/ Tick

SpecGuarded == Init /\ [][NextGuarded]_vars

(***************************************************************************)
(* Announces for the create and the update branch, with DISABLE_RATE_LIMIT *)
(* set: complete payloads, payloads with explicit nulls, and payloads that *)
(* lack a mandatory field or carry a malformed one.                        *)
(***************************************************************************)
MandatoryFields ==
  {"roomId", "player1Name", "player1WalletAddress", "player1PeerId", "appBaseUrl"}
NullableFields == {"gameType", "player1WalletPuzzleHash", "player2Name"}

\* The payload without the field.
Without(data, field) == [k \in DOMAIN data \ {field} |-> data[k]]

\* A valid payload with null for every nullable field, and one per field.
Cleared(id) == Plain(id) @@ [k \in NullableFields |-> Null]
ClearedField(id, field) == Plain(id) @@ [k \in {field} |-> Null]

\* A payload whose wallet address has neither prefix.
Malformed(id) == [Plain(id) EXCEPT !.player1WalletAddress = "btc1a"]

WriteAnnounces ==
  UNION {{Plain(id), Rich(id), Dated(id), Cleared(id), Malformed(id)}
           \cup {ClearedField(id, field) : field \in NullableFields}
           \cup {Without(Plain(id), field) : field \in MandatoryFields}
         : id \in ListedRoomIds}

NextWrite ==
  \/ \E data \in WriteAnnounces : PostAnnounce(data) /\ RateLimitDisabled
  \/ RoomCleanupTick
  \/ Tick

SpecWrite == Init /\ [][NextWrite]_vars

(***************************************************************************)
(* Properties of the rate limiter and of the block table.                  *)
(***************************************************************************)
\* The step is a read or a write of client ip through rateLimit.  The
\* middleware records the client, so the first conjuncts are implied by the
\* last; they are there to be tested first.
ReadStep(ip) == client'.ip = ip /\ client'.method = "GET" /\ LimitedRead(ip)
WriteStep(ip) == client'.ip = ip /\ client'.method = "POST" /\ LimitedWrite(ip)

\* The address has a window that is not over.
InWindow(ip) == HasIP(rateLimitMap, ip) /\ now <= GetIP(rateLimitMap, ip).resetTime

\* A counter of the address in its current window: 0 when there is none.
Counted(ip, counter) == IF InWindow(ip) THEN GetIP(rateLimitMap, ip)[counter] ELSE 0

\* The address is in the permanent blocklist or has an unexpired block.
BlockedNow(ip) ==
  \/ ip \in BLOCKED_IPS
  \/ HasIP(blockedIPs, ip) /\ now < GetIP(blockedIPs, ip).blockedUntil

TooManyRequests == [op |-> "rateLimit", code |-> 429]
AccessDenied == [op |-> "rateLimit", code |-> 403]

\* C15: for a remote address that is not blocked, a request is number
\* c + 1 of its kind, c being the count of the window it falls in and 0
\* when there is no window or the reset time has passed; the request is
\* allowed up to the threshold of its kind and answered 429 beyond it,
\* and a request that opens a window sets its reset time one window ahead.
C15_ThresholdPerWindow ==
  [][\A ip \in RemoteIPs :
       /\ (ReadStep(ip) /\ ~BlockedNow(ip)) =>
            LET number == Counted(ip, "count") + 1
            IN  /\ HasIP(rateLimitMap', ip)
                /\ GetIP(rateLimitMap', ip).count = number
                /\ number <= RATE_LIMIT_MAX_REQUESTS => resp'.op = "GET /scrape"
                /\ number > RATE_LIMIT_MAX_REQUESTS => resp' = TooManyRequests
                /\ GetIP(rateLimitMap', ip).resetTime =
                     IF InWindow(ip) THEN GetIP(rateLimitMap, ip).resetTime
                     ELSE now + RATE_LIMIT_WINDOW
       /\ (WriteStep(ip) /\ ~BlockedNow(ip)) =>
            LET number == Counted(ip, "announceCount") + 1
            IN  /\ HasIP(rateLimitMap', ip)
                /\ GetIP(rateLimitMap', ip).announceCount = number
                /\ number <= RATE_LIMIT_MAX_ANNOUNCES => resp'.op = "POST /announce"
                /\ number > RATE_LIMIT_MAX_ANNOUNCES => resp' = TooManyRequests
                /\ GetIP(rateLimitMap', ip).resetTime =
                     IF InWindow(ip) THEN GetIP(rateLimitMap, ip).resetTime
                     ELSE now + RATE_LIMIT_WINDOW]_vars

\* A read was denied as number threshold + 1 of a window that began at an
\* earlier instant.
C15_Witness ==
  /\ resp = TooManyRequests /\ client.method = "GET"
  /\ HasIP(rateLimitMap, client.ip)
  /\ GetIP(rateLimitMap, client.ip).count = RATE_LIMIT_MAX_REQUESTS + 1
  /\ GetIP(rateLimitMap, client.ip).resetTime < now + RATE_LIMIT_WINDOW

\* C16: a read leaves announceCount and a write leaves count as they are,
\* a read is denied for quota only when the read quota is used up and a
\* write only when the write quota is used up.
C16_CountersIndependent ==
  [][\A ip \in RemoteIPs :
       /\ (ReadStep(ip) /\ ~BlockedNow(ip)) =>
            /\ GetIP(rateLimitMap', ip).announceCount = Counted(ip, "announceCount")
            /\ resp' = TooManyRequests => Counted(ip, "count") >= RATE_LIMIT_MAX_REQUESTS
       /\ (WriteStep(ip) /\ ~BlockedNow(ip)) =>
            /\ GetIP(rateLimitMap', ip).count = Counted(ip, "count")
            /\ resp' = TooManyRequests
                 => Counted(ip, "announceCount") >= RATE_LIMIT_MAX_ANNOUNCES]_vars

\* A read was allowed in a window whose write quota is exceeded.
C16_Witness ==
  /\ client.method = "GET" /\ resp.op = "GET /scrape"
  /\ HasIP(rateLimitMap, client.ip)
  /\ GetIP(rateLimitMap, client.ip).announceCount > RATE_LIMIT_MAX_ANNOUNCES

\* C17: a request that starts a new window for an address resets both
\* counters and keeps the violations of the entry; violations of an entry
\* that stays in the table change only by a denied request of the address
\* (+1) or by the periodic sweep (-1).
C17_ViolationsSurviveRollover ==
  [][\A ip \in RemoteIPs :
       (HasIP(rateLimitMap, ip) /\ HasIP(rateLimitMap', ip))
       => LET old == GetIP(rateLimitMap, ip)
              new == GetIP(rateLimitMap', ip)
          IN  /\ ((ReadStep(ip) \/ WriteStep(ip)) /\ now > old.resetTime
                    /\ ~BlockedNow(ip))
                 => /\ new.count + new.announceCount = 1
                    /\ new.violations = old.violations
              /\ new.violations # old.violations
                 => \/ /\ resp' = TooManyRequests /\ client'.ip = ip
                       /\ new.violations = old.violations + 1
                    \/ /\ resp'.op = "rateLimitCleanupInterval"
                       /\ new.violations = old.violations - 1]_vars

C19_LocalhostNeverBlocked ==
  /\ \A i \in 1..Len(blockedIPs) : blockedIPs[i].ip \notin LocalhostIPs
  /\ \A ip \in LocalhostIPs :
       blockIP(ip, "Excessive requests", blockedIPs, now) = blockedIPs

\* The client on the host was served while a remote address is blocked.
C19_Witness ==
  /\ client.ip \in LocalhostIPs
  /\ resp.op = "GET /scrape"
  /\ Len(blockedIPs) > 0

\* C20: a request from a localhost address is never answered 429 and leaves
\* the limiter table as it is; it is answered 403 exactly when the address
\* is permanently blocked or has an unexpired block.
C20_LocalhostBypass ==
  [][\A ip \in LocalhostIPs \cap ClientIPs :
       (ReadStep(ip) \/ WriteStep(ip))
       => /\ resp' # TooManyRequests
          /\ rateLimitMap' = rateLimitMap
          /\ resp' = AccessDenied <=> BlockedNow(ip)]_vars

\* The client on the host announced twice in the server's first window, one
\* time more than the write quota, while no remote client had been counted.
C20_Witness ==
  /\ client.ip \in LocalhostIPs /\ client.method = "POST"
  /\ resp.op = "POST /announce" /\ resp.code = 200
  /\ hist.existed
  /\ now = MsPerSec
  /\ rateLimitMap = <<>>

(***************************************************************************)
(* Properties of the bound on the limiter table.                           *)
(***************************************************************************)
\* The step is an admission check of a client of the crowd.
AdmissionStep(ip) == client'.ip = ip /\ LimitedRead(ip)

\* C21: after every admission check the limiter table holds at most
\* MAX_RATE_LIMIT_ENTRIES entries; a check that inserts an entry into a
\* full table removes as many entries as exceed the cap, and every entry
\* it removes has a reset time no later than that of every entry it
\* keeps, whatever their violations.
C21_TableCapped ==
  /\ [](Len(rateLimitMap) <= MAX_RATE_LIMIT_ENTRIES)
  /\ [][\A ip \in CrowdIPs :
         AdmissionStep(ip) =>
           LET inserts == ~BlockedNow(ip) /\ ~HasIP(rateLimitMap, ip)
               size == Len(rateLimitMap) + (IF inserts THEN 1 ELSE 0)
               kept == rateLimitMap'
           IN  /\ Len(kept) <= MAX_RATE_LIMIT_ENTRIES
               /\ Cardinality(client'.evicted)
                    = Max(0, size - MAX_RATE_LIMIT_ENTRIES)
               /\ \A e \in client'.evicted : \A i \in 1..Len(kept) :
                    e.resetTime <= kept[i].resetTime]_vars

\* An admission check has removed an entry that had a violation and kept
\* the entry of another client that has none.
C21_Witness ==
  /\ client.ip \in CrowdIPs
  /\ \E e \in client.evicted : e.violations > 0
  /\ \E i \in 1..Len(rateLimitMap) :
       rateLimitMap[i].ip # client.ip /\ rateLimitMap[i].violations = 0

(***************************************************************************)
(* Properties of isIPBlocked.                                              *)
(***************************************************************************)
\* The step is a request of the client through rateLimit.
RequestStep(ip) == ReadStep(ip) \/ WriteStep(ip)

\* C22: in every reachable state isIPBlocked reports an address of the
\* permanent blocklist blocked with the reason 'Permanently blocked', and
\* any other address blocked exactly when the block table has an entry
\* for it with now < blockedUntil; for an entry with blockedUntil <= now
\* it reports not blocked and leaves a table without that entry and with
\* every other entry.  A request is answered 403 exactly when the address
\* is reported blocked, and a request that finds an expired block leaves
\* no block of the address but one the request itself has set.
C22_BlockedVerdict ==
  /\ [](\A ip \in ClientIPs \cup CrowdIPs :
         LET verdict == isIPBlocked(ip, blockedIPs, now)
             entry == GetIP(blockedIPs, ip)
         IN  /\ ip \in BLOCKED_IPS =>
                  verdict.blocked /\ verdict.reason = "Permanently blocked"
             /\ ip \notin BLOCKED_IPS =>
                  (verdict.blocked <=>
                     HasIP(blockedIPs, ip) /\ now < entry.blockedUntil)
             /\ (ip \notin BLOCKED_IPS /\ HasIP(blockedIPs, ip)
                   /\ entry.blockedUntil <= now) =>
                  /\ ~verdict.blocked
                  /\ ~HasIP(verdict.blockedIPs, ip)
                  /\ verdict.blockedIPs
                       = SelectSeq(blockedIPs, LAMBDA e : e.ip # ip))
  /\ [][\A ip \in ClientIPs :
         RequestStep(ip) =>
           /\ resp' = AccessDenied <=> isIPBlocked(ip, blockedIPs, now).blocked
           /\ (HasIP(blockedIPs, ip) /\ GetIP(blockedIPs, ip).blockedUntil <= now)
                => \/ ~HasIP(blockedIPs', ip)
                   \/ GetIP(blockedIPs', ip).blockedUntil
                        = now + BLOCK_DURATION]_vars

\* A request has found an expired block of its address: it was let through
\* and the block is gone.
C22_Witness ==
  /\ client.ip \in RemoteIPs
  /\ client.hadBlock
  /\ resp.op # "rateLimit"
  /\ ~HasIP(blockedIPs, client.ip)

(***************************************************************************)
(* Properties of the replay guard.                                         *)
(***************************************************************************)
\* The step is the timeout callback of the nonce.
TimeoutStep(nonce) ==
  /\ resp'.op = "nonceTimeout" /\ resp'.nonce = nonce
  /\ NonceTimeout

\* A callback for the nonce is pending that is due no later than t.
TimeoutDueBy(nonce, t) ==
  \E i \in 1..Len(nonceTimers) :
    nonceTimers[i].nonce = nonce /\ nonceTimers[i].due <= t

\* C23: a valid announce whose nonce is not in usedNonces is accepted and
\* leaves the nonce in the Set, so that the same announce sent next is
\* rejected; a valid announce whose nonce is in the Set is rejected with
\* the duplicate-nonce error alone and changes neither registry nor Set.
\* A nonce of the Set has a timeout callback due no later than
\* NONCE_CLEANUP_INTERVAL after it was added; the callback runs no earlier
\* than due and removes the nonce, and it does run: a nonce of the Set
\* leaves it, after which an announce with it is accepted again.
C23_ReplayRejectedWithinWindow ==
  /\ [](\A nonce \in Nonces :
         HasNonce(usedNonces, nonce) =>
           /\ Has(nonceLog, nonce)
           /\ TimeoutDueBy(nonce, nonceLog[nonce] + NONCE_CLEANUP_INTERVAL))
  /\ [][\A nonce \in Nonces :
         /\ AnnounceStep(Signed(IdOrder[1], nonce)) =>
              IF HasNonce(usedNonces, nonce)
              THEN /\ resp'.code = 400 /\ resp'.errors = <<"nonce">>
                   /\ UNCHANGED <<rooms, usedNonces>>
              ELSE /\ resp'.code = 200
                   /\ HasNonce(usedNonces', nonce)
                   /\ nonceLog'[nonce] = now
                   /\ validateNonce(Signed(IdOrder[1], nonce), usedNonces').errors
                        = <<"nonce">>
         /\ TimeoutStep(nonce) =>
              /\ Head(nonceTimers).due <= now
              /\ ~HasNonce(usedNonces', nonce)]_vars
  /\ \A nonce \in Nonces :
       HasNonce(usedNonces, nonce) ~> ~HasNonce(usedNonces, nonce)

\* An announce is accepted with the only nonce ever used, which was added
\* to the Set a retention window or more ago.
C23_Witness ==
  /\ resp.op = "POST /announce" /\ resp.code = 200
  /\ hist.nonce \in Nonces
  /\ DOMAIN nonceLog = {hist.nonce}
  /\ hist.addedBefore > 0
  /\ hist.addedBefore + NONCE_CLEANUP_INTERVAL <= now

\* The nonces of the Set.
NonceSet(used) == {used[i] : i \in 1..Len(used)}

\* C24: usedNonces never holds more than MAX_NONCES nonces; a valid
\* announce with a nonce that is not in a full Set is accepted, its nonce
\* is in the Set afterwards, and the Set has lost exactly one nonce, the
\* one that was first in insertion order; while the Set is not full an
\* announce removes nothing from it.
C24_NonceSetCapped ==
  /\ [](Len(usedNonces) <= MAX_NONCES)
  /\ [][\A nonce \in Nonces :
         (AnnounceStep(Signed(IdOrder[1], nonce)) /\ ~HasNonce(usedNonces, nonce)) =>
           /\ resp'.code = 200
           /\ HasNonce(usedNonces', nonce)
           /\ IF Len(usedNonces) = MAX_NONCES
              THEN /\ NonceSet(usedNonces) \ NonceSet(usedNonces') = {usedNonces[1]}
                   /\ Len(usedNonces') = MAX_NONCES
              ELSE NonceSet(usedNonces) \subseteq NonceSet(usedNonces')]_vars

\* An accepted announce has put its nonce into a full Set, which dropped
\* one nonce for it.
C24_Witness ==
  /\ resp.op = "POST /announce" /\ resp.code = 200
  /\ hist.nonce \in Nonces
  /\ Cardinality(hist.dropped) = 1
  /\ Len(usedNonces) = MAX_NONCES
  /\ HasNonce(usedNonces, hist.nonce)

(***************************************************************************)
(* Properties of the write path.                                           *)
(***************************************************************************)
\* C25: an announce is answered 400 exactly when its validation finds an
\* error, and an announce answered 400 leaves the registry as it was:
\* the same records in the same order, at capacity too.
C25_RejectedAnnounceKeepsRegistry ==
  [][\A data \in AnnounceInputs :
       AnnounceStep(data) =>
         /\ resp'.code = 400 <=> validateAnnouncement(data) # <<>>
         /\ resp'.code = 400 => rooms' = rooms]_vars

\* An announce was answered 400 with the registry at capacity.
C25_Witness ==
  /\ resp.op = "POST /announce" /\ resp.code = 400
  /\ Len(rooms) = MAX_ROOMS

\* The fields of a room record that an update may merge.
MergedFields ==
  {"gameType", "status", "appBaseUrl", "public", "player1Name",
   "player1WalletAddress", "player1WalletPuzzleHash", "player1PeerId",
   "player2Name", "wagerAmount"}

\* The step is an accepted announce for a room that is stored.
UpdateStep(data) ==
  /\ resp'.op = "POST /announce" /\ resp'.code = 200
  /\ Has(data, "roomId") /\ HasRoom(rooms, data.roomId)
  /\ PostAnnounce(data)

\* C26: an accepted announce for a stored room leaves every field the
\* payload omits at its prior value, and sets to null every nullable field
\* (gameType, the optional player-1 fields, the player-2 and state-channel
\* fields) for which the payload carries an explicit null.  Stated for a
\* registry below MAX_ROOMS, where the room-limit block does not run.
C26_OmittedKeptNullOverwrites ==
  [][\A data \in WriteAnnounces :
       (UpdateStep(data) /\ Len(rooms) < MAX_ROOMS) =>
         LET before == GetRoom(rooms, data.roomId)
             after == GetRoom(rooms', data.roomId)
         IN  \A field \in MergedFields :
               /\ ~Has(data, field) => after[field] = before[field]
               /\ (field \in NullableFields /\ Has(data, field)
                     /\ data[field] = Null) => after[field] = Null]_vars

(***************************************************************************)
(* Properties of GET /scrape.                                              *)
(***************************************************************************)
\* The sum of the counts of a breakdown.
RECURSIVE SumOf(_)
SumOf(counts) ==
  IF DOMAIN counts = {}
  THEN 0
  ELSE LET k == CHOOSE key \in DOMAIN counts : TRUE
       IN  counts[k] + SumOf([key \in DOMAIN counts \ {k} |-> counts[key]])

\* C27: GET /scrape reports as total the number of stored rooms that are
\* not expired at the time of the request; the counts by status sum to
\* the total and so do the counts by gameType, in which the rooms without
\* a gameType are counted under 'unknown'.
C27_ScrapeCountsAddUp ==
  [][ScrapeStep =>
       LET live == {i \in 1..Len(rooms) : ~ExpiredAt(rooms[i], now)}
           untyped == {i \in live : rooms[i].gameType = Null}
       IN  /\ resp'.total = Cardinality(live)
           /\ SumOf(resp'.byStatus) = resp'.total
           /\ SumOf(resp'.byGameType) = resp'.total
           /\ IF untyped = {}
              THEN ~Has(resp'.byGameType, "unknown")
              ELSE /\ Has(resp'.byGameType, "unknown")
                   /\ resp'.byGameType["unknown"] = Cardinality(untyped)]_vars

\* The statistics count a room without gameType while an expired room was
\* left out.
C27_Witness ==
  /\ resp.op = "GET /scrape"
  /\ hist.removed # {}
  /\ resp.total > 0
  /\ Has(resp.byGameType, "unknown")

\* The step is an announce whose roomId is not one of a stored room.
UnknownRoomStep(data) ==
  /\ resp'.op = "POST /announce"
  /\ Has(data, "roomId") => ~HasRoom(rooms, data.roomId)
  /\ PostAnnounce(data)

\* The payload has the mandatory field, well formed.
MandatoryGiven(data, field) ==
  /\ Has(data, field)
  /\ data[field] \in (CASE field = "roomId" -> WellFormedRoomIds
                       [] field = "player1Name" -> WellFormedNames
                       [] field = "player1WalletAddress" -> WellFormedWallets
                       [] field = "player1PeerId" -> WellFormedPeerIds
                       [] field = "appBaseUrl" -> WellFormedUrls)

\* C28: an announce for a roomId that is not in the registry is answered
\* 200 and stores a room of that id when the payload has every mandatory
\* field, well formed, and is answered 400 and stores nothing otherwise;
\* the stored room has createdAt = now, or the creation time the payload
\* supplies, updatedAt = now, public = true unless the payload says false,
\* and status 'waiting' unless the payload supplies a status.
C28_CreateNeedsMandatoryFields ==
  [][\A data \in WriteAnnounces :
       UnknownRoomStep(data) =>
         IF \A field \in MandatoryFields : MandatoryGiven(data, field)
         THEN /\ resp'.code = 200
              /\ HasRoom(rooms', data.roomId)
              /\ LET room == GetRoom(rooms', data.roomId)
                 IN  /\ room = resp'.room
                     /\ room.createdAt
                          = (IF Has(data, "createdAt") THEN data.createdAt ELSE now)
                     /\ room.updatedAt = now
                     /\ room.public = ~(Has(data, "public") /\ data.public = FALSE)
                     /\ room.status
                          = (IF Has(data, "status") THEN data.status ELSE "waiting")
         ELSE /\ resp'.code = 400
              /\ rooms' = rooms]_vars

\* A room was created, after the first instant, from a payload that makes
\* it private and active.
C28_Witness ==
  /\ resp.op = "POST /announce" /\ resp.code = 200
  /\ ~hist.existed
  /\ now > MsPerSec
  /\ resp.room.createdAt = now /\ resp.room.updatedAt = now
  /\ ~resp.room.public /\ resp.room.status = "active"

(***************************************************************************)
(* Properties of the order of the checks on a write.                       *)
(***************************************************************************)
\* The step is an announce of the client through rateLimit.
GuardedStep(ip, data) ==
  /\ client'.ip = ip /\ client'.method = "POST"
  /\ GuardedWrite(ip, data)

\* C29: a write is checked against the block table first, then against
\* the write quota, then against the replay guard, and only then reaches
\* the registry: a blocked client is answered 403 and is not counted, a
\* client over its quota 429 whatever the nonce, an admitted announce
\* with a nonce of the Set 400, and any other one 200.  A write answered
\* 403 or 429 leaves usedNonces, the pending timeouts and the registry as
\* they were.
C29_DeniedWriteTouchesNothing ==
  [][\A ip \in RemoteIPs : \A data \in GuardedAnnounces :
       GuardedStep(ip, data) =>
         LET blocked == BlockedNow(ip)
             overQuota == Counted(ip, "announceCount") >= RATE_LIMIT_MAX_ANNOUNCES
             replayed == Has(data, "nonce") /\ HasNonce(usedNonces, data.nonce)
         IN  /\ resp'.op = "rateLimit" =>
                  /\ resp'.code \in {403, 429}
                  /\ UNCHANGED <<rooms, usedNonces, nonceTimers>>
             /\ blocked =>
                  resp' = AccessDenied /\ rateLimitMap' = rateLimitMap
             /\ (~blocked /\ overQuota) => resp' = TooManyRequests
             /\ (~blocked /\ ~overQuota /\ replayed) =>
                  /\ resp'.op = "POST /announce" /\ resp'.code = 400
                  /\ rooms' = rooms
             /\ (~blocked /\ ~overQuota /\ ~replayed) =>
                  /\ resp'.op = "POST /announce" /\ resp'.code = 200
                  /\ HasRoom(rooms', data.roomId)]_vars

\* A write was denied with the registry at capacity and no nonce in the
\* Set: the nonce of the denied announce would have been new.
C29_Witness ==
  /\ resp.op = "rateLimit" /\ client.method = "POST"
  /\ Len(rooms) = MAX_ROOMS
  /\ usedNonces = <<>>
  /\ nonceTimers = <<>>

\* C30: an announce that is answered 400 without the duplicate-nonce
\* error leaves usedNonces as it was, so that the corrected announce with
\* the same nonce passes the replay guard.
C30_RejectedAnnounceKeepsNonceFree ==
  [][\A data \in ReplayAnnounces :
       (/\ AnnounceStep(data)
        /\ Has(data, "nonce")
        /\ resp'.code = 400
        /\ \A i \in 1..Len(resp'.errors) : resp'.errors[i] # "nonce") =>
         /\ usedNonces' = usedNonces
         /\ validateNonce(Signed(IdOrder[1], data.nonce), usedNonces').errors = <<>>]_vars

(***************************************************************************)
(* Properties of the retention of a nonce.                                 *)
(***************************************************************************)
\* C31: a timeout callback removes a nonce from usedNonces no earlier than
\* NONCE_CLEANUP_INTERVAL after the nonce was last added to the Set,
\* whichever request scheduled the callback; until then the nonce stays
\* in the Set unless the cap evicts it, and a resubmission is rejected.
C31_NonceKeptForRetentionWindow ==
  [][\A nonce \in Nonces :
       (TimeoutStep(nonce) /\ HasNonce(usedNonces, nonce)) =>
         nonceLog[nonce] + NONCE_CLEANUP_INTERVAL <= now]_vars

(***************************************************************************)
(* Properties of the limiter sweep.                                        *)
(***************************************************************************)
\* The step is a run of rateLimitCleanupInterval.
LimiterSweepStep ==
  resp'.op = "rateLimitCleanupInterval" /\ RateLimitCleanupTick

\* C32: a run of the limiter sweep adds no entry, leaves every entry with
\* now <= resetTime as it is, and of an entry with now > resetTime takes
\* one violation if it has any and deletes it if it has none; the clock
\* advancing past the last request and the sweep being run again and
\* again, the limiter table becomes empty and stays so.
C32_LimiterSweepDecays ==
  /\ [][LimiterSweepStep =>
         /\ \A i \in 1..Len(rateLimitMap') : HasIP(rateLimitMap, rateLimitMap'[i].ip)
         /\ \A i \in 1..Len(rateLimitMap) :
              LET entry == rateLimitMap[i]
              IN  IF now <= entry.resetTime
                  THEN /\ HasIP(rateLimitMap', entry.ip)
                       /\ GetIP(rateLimitMap', entry.ip) = entry
                  ELSE IF entry.violations > 0
                       THEN /\ HasIP(rateLimitMap', entry.ip)
                            /\ GetIP(rateLimitMap', entry.ip)
                                 = [entry EXCEPT !.violations = entry.violations - 1]
                       ELSE ~HasIP(rateLimitMap', entry.ip)]_vars
  /\ <>[](rateLimitMap = <<>>)

\* A sweep has run and left an entry whose window is over: it took one of
\* the entry's violations.
C32_Witness ==
  /\ resp.op = "rateLimitCleanupInterval"
  /\ \E i \in 1..Len(rateLimitMap) : now > rateLimitMap[i].resetTime

(***************************************************************************)
(* The timestamp check of the announce.                                    *)
(***************************************************************************)

\* The response is a 400 that names the timestamp.
TimestampRejected(r) ==
  /\ r.code = 400
  /\ \E i \in 1..Len(r.errors) : r.errors[i] = "timestamp"

C34_EvictionKeepsBlocks ==
  [][\A ip \in CrowdIPs :
       (AdmissionStep(ip) /\ client'.evicted # {}) =>
         /\ blockedIPs' = IF HasIP(blockedIPs, ip)
                          THEN DeleteIP(blockedIPs, ip)
                          ELSE blockedIPs
         /\ HasIP(blockedIPs, ip) => now >= GetIP(blockedIPs, ip).blockedUntil
         /\ \A other \in CrowdIPs : BlockedNow(other)' = BlockedNow(other)]_vars

\* The last request evicted the limiter entry of an address that is blocked.
C34_Witness ==
  /\ resp.op = "GET /scrape"
  /\ \E entry \in client.evicted : BlockedNow(entry.ip)

(***************************************************************************)
(* Requests of a blocked address.                                          *)
(***************************************************************************)

\* C35: a request of an address that is blocked is answered 403 and
\* changes neither the limiter table (no counter or violation is
\* incremented, no entry is created) nor the block table, so blockedUntil
\* stays what it was; the lazy removal of an expired block happens only in
\* requests that are not answered 403.
C35_BlockedRequestTouchesNothing ==
  [][\A ip \in ClientIPs :
       RequestStep(ip) =>
         /\ BlockedNow(ip) =>
               /\ resp' = AccessDenied
               /\ rateLimitMap' = rateLimitMap
               /\ blockedIPs' = blockedIPs
         /\ resp' = AccessDenied => BlockedNow(ip)]_vars

\* A blocked address was answered 403 after the instant of its block, with
\* the block still ending one BLOCK_DURATION after it began.
C35_Witness ==
  /\ resp = AccessDenied
  /\ HasIP(blockedIPs, client.ip)
  /\ HasIP(rateLimitMap, client.ip)
  /\ now < GetIP(blockedIPs, client.ip).blockedUntil
  /\ now > GetIP(rateLimitMap, client.ip).resetTime

(***************************************************************************)
(* Announces for rooms that are expired and not yet swept.                 *)
(***************************************************************************)

\* The step is an accepted announce for a stored room that is expired.
RevivalStep(data) ==
  /\ resp'.op = "POST /announce" /\ resp'.code = 200
  /\ HasRoom(rooms, data.roomId)
  /\ ExpiredAt(GetRoom(rooms, data.roomId), now)
  /\ PostAnnounce(data)

\* C36: an accepted announce for a stored room that is expired and has
\* not been swept is an update: the record keeps its createdAt and every
\* field the payload omits, gets the time of the announce as updatedAt and
\* is not expired afterwards.
C36_ExpiredRoomUpdated ==
  [][\A data \in AnnounceInputs :
       RevivalStep(data) =>
         LET before == GetRoom(rooms, data.roomId)
             after == GetRoom(rooms', data.roomId)
         IN  /\ HasRoom(rooms', data.roomId)
             /\ after.createdAt = before.createdAt
             /\ \A field \in MergedFields :
                   ~Has(data, field) => after[field] = before[field]
             /\ after.updatedAt = now
             /\ ~ExpiredAt(after, now)]_vars

\* C37: an accepted announce never evicts, for the room limit, a room that
\* is not expired while another room that is expired stays stored and
\* expired.
C37_EvictionPrefersExpired ==
  [][\A data \in AnnounceInputs :
       (AnnounceStep(data) /\ resp'.code = 200) =>
         \A id \in hist'.removed :
           \/ ExpiredAt(GetRoom(rooms, id), now)
           \/ \A i \in 1..Len(rooms) :
                 (rooms[i].roomId # id /\ ExpiredAt(rooms[i], now))
                   => ~(/\ HasRoom(rooms', rooms[i].roomId)
                        /\ ExpiredAt(GetRoom(rooms', rooms[i].roomId), now))]_vars

\* C38: every stored room has an updatedAt, and its createdAt is not later
\* than its updatedAt.
C38_CreatedBeforeUpdated ==
  \A i \in 1..Len(rooms) :
    /\ TruthyNum(rooms[i], "updatedAt")
    /\ rooms[i].createdAt <= rooms[i].updatedAt

(***************************************************************************)
(* The size cap of the limiter table and the address being checked.        *)
(***************************************************************************)

\* C39: an admission check of an address that is not blocked leaves an
\* entry of that address in the limiter table, also when the check evicts
\* entries for the size cap, and the entry holds the count of the window
\* plus this request, so the next request of the window counts on from it.
C39_RequesterKeepsItsEntry ==
  [][\A ip \in CrowdIPs :
       (AdmissionStep(ip) /\ ~BlockedNow(ip)) =>
         /\ HasIP(rateLimitMap', ip)
         /\ GetIP(rateLimitMap', ip).count = Counted(ip, "count") + 1
         /\ \A entry \in client'.evicted : entry.ip # ip]_vars

\* The last check evicted an entry whose window ends when the requester's
\* new window ends, and the requester's entry is stored with its count.
C39_Witness ==
  /\ resp.op = "GET /scrape"
  /\ HasIP(rateLimitMap, client.ip)
  /\ GetIP(rateLimitMap, client.ip).count = 1
  /\ \E entry \in client.evicted :
        entry.resetTime = GetIP(rateLimitMap, client.ip).resetTime

(***************************************************************************)
(* The middleware with DISABLE_RATE_LIMIT set.                             *)
(***************************************************************************)
OpenStep(ip) ==
  /\ client'.ip = ip
  /\ OpenRead(ip) \/ OpenWrite(ip)

\* C40: with DISABLE_RATE_LIMIT set every request of every address reaches
\* its handler, whether the address is blocked, over its quota or neither,
\* and the request leaves the limiter table and the block table as they
\* were.
C40_DisabledAdmitsAll ==
  [][\A ip \in ClientIPs :
       OpenStep(ip) =>
         /\ resp'.op \in {"GET /scrape", "POST /announce"}
         /\ resp'.code = 200
         /\ rateLimitMap' = rateLimitMap
         /\ blockedIPs' = blockedIPs]_vars

\* A request of an address with a running block and a used-up quota was
\* served.
C40_Witness ==
  /\ resp.op \in {"GET /scrape", "POST /announce"}
  /\ client.ip \in RemoteIPs
  /\ BlockedNow(client.ip)
  /\ Counted(client.ip, "count") > RATE_LIMIT_MAX_REQUESTS

====
